---- MODULE Spec2Model ----
(***************************************************************************)
(* JsonLogic evaluator (json-logic-rs): the parse / evaluate pipeline of   *)
(* apply(rule, data).                                                      *)
(*                                                                         *)
(* JSON values are tagged records.  A string is the sequence of its        *)
(* characters, an array the sequence of its items, an object the function  *)
(* from its keys (strings) to their values.  A Result is a record          *)
(* [ok, v, out]: v is the value (or the error), out what the call has      *)
(* printed on standard output (the log operator).                          *)
(***************************************************************************)
EXTENDS Integers, Sequences, FiniteSets, TLC

VARIABLES pc, rule, data, result,
          overflow_checks   \* the build: TRUE when integer overflow panics
                            \* (the dev profile), FALSE when it wraps (release)
vars == <<pc, rule, data, result, overflow_checks>>

---------------------------------------------------------------------------
(* serde_json::Value *)
Null == [t |-> "null"]
Bool(b) == [t |-> "bool", b |-> b]
Number(n) == [t |-> "num", n |-> n]
String(s) == [t |-> "str", s |-> s]
Array(a) == [t |-> "arr", a |-> a]
Object(m) == [t |-> "obj", m |-> m]

NULL == Null

(* Result<Value, Error>, with the standard output written so far *)
Ok(val) == [ok |-> TRUE, v |-> val, out |-> <<>>]
Err(e) == [ok |-> FALSE, v |-> [t |-> "err", e |-> e], out |-> <<>>]
(* the call does not return: the thread panics *)
Panic == [ok |-> FALSE, v |-> [t |-> "panic", e |-> "attempt to negate with overflow"],
          out |-> <<>>]
After(pre, r) == [r EXCEPT !.out = pre \o r.out]

---------------------------------------------------------------------------
(* NumParams *)
Any_ == [kind |-> "Any", lo |-> 0, hi |-> 0]
Unary == [kind |-> "Unary", lo |-> 1, hi |-> 1]
Exactly(n) == [kind |-> "Exactly", lo |-> n, hi |-> n]
AtLeast(n) == [kind |-> "AtLeast", lo |-> n, hi |-> n]
Variadic(lo, hi) == [kind |-> "Variadic", lo |-> lo, hi |-> hi]

is_valid_len(p, len) ==
    CASE p.kind = "None" -> len = 0
      [] p.kind = "Any" -> TRUE
      [] p.kind = "Unary" -> len = 1
      [] p.kind = "AtLeast" -> len >= p.lo
      [] p.kind = "Exactly" -> len = p.lo
      [] p.kind = "Variadic" -> p.lo <= len /\ len < p.hi

(* can_accept_unary, had only the Unary arity taken a bare argument *)
can_accept_unary_only_unary(p) == p.kind = "Unary"

(* can_accept_unary, had every arity taken a bare argument *)
can_accept_unary_always(p) == TRUE

can_accept_unary(p) ==
    CASE p.kind = "None" -> FALSE
      [] p.kind = "Any" -> TRUE
      [] p.kind = "Unary" -> TRUE
      [] p.kind = "AtLeast" -> p.lo >= 1
      [] p.kind = "Exactly" -> p.lo = 1
      [] p.kind = "Variadic" -> p.lo <= 1 /\ 1 < p.hi

OPERATOR_MAP ==
    (<<"=", "=">> :> Exactly(2)) @@
    (<<"!", "=">> :> Exactly(2)) @@
    (<<"=", "=", "=">> :> Exactly(2)) @@
    (<<"!", "=", "=">> :> Exactly(2)) @@
    (<<"!">> :> Unary) @@
    (<<"!", "!">> :> Unary) @@
    (<<"<">> :> Variadic(2, 4)) @@
    (<<"<", "=">> :> Variadic(2, 4)) @@
    (<<">">> :> Variadic(2, 4)) @@
    (<<">", "=">> :> Variadic(2, 4)) @@
    (<<"+">> :> Any_) @@
    (<<"-">> :> Variadic(1, 3)) @@
    (<<"*">> :> AtLeast(1)) @@
    (<<"/">> :> Exactly(2)) @@
    (<<"%">> :> Exactly(2)) @@
    (<<"m", "a", "x">> :> AtLeast(1)) @@
    (<<"m", "i", "n">> :> AtLeast(1)) @@
    (<<"m", "e", "r", "g", "e">> :> Any_) @@
    (<<"i", "n">> :> Exactly(2)) @@
    (<<"c", "a", "t">> :> Any_) @@
    (<<"s", "u", "b", "s", "t", "r">> :> Variadic(2, 4)) @@
    (<<"l", "o", "g">> :> Unary)

(* the data operators, had var taken any number of arguments *)
DATA_OPERATOR_MAP_var_any ==
    (<<"v", "a", "r">> :> Any_) @@
    (<<"m", "i", "s", "s", "i", "n", "g">> :> Any_) @@
    (<<"m", "i", "s", "s", "i", "n", "g", "_", "s", "o", "m", "e">> :> Exactly(2))

DATA_OPERATOR_MAP ==
    (<<"v", "a", "r">> :> Variadic(0, 3)) @@
    (<<"m", "i", "s", "s", "i", "n", "g">> :> Any_) @@
    (<<"m", "i", "s", "s", "i", "n", "g", "_", "s", "o", "m", "e">> :> Exactly(2))

LAZY_OPERATOR_MAP ==
    (<<"i", "f">> :> Any_) @@
    (<<"?", ":">> :> Any_) @@
    (<<"o", "r">> :> AtLeast(1)) @@
    (<<"a", "n", "d">> :> AtLeast(1)) @@
    (<<"m", "a", "p">> :> Exactly(2)) @@
    (<<"f", "i", "l", "t", "e", "r">> :> Exactly(2)) @@
    (<<"r", "e", "d", "u", "c", "e">> :> Exactly(3)) @@
    (<<"a", "l", "l">> :> Exactly(2)) @@
    (<<"s", "o", "m", "e">> :> Exactly(2)) @@
    (<<"n", "o", "n", "e">> :> Exactly(2))

---------------------------------------------------------------------------
(* op_from_map: Ok(None), Ok(Some(OpArgs {op, args})) or an error *)
NoOp == [ok |-> TRUE, some |-> FALSE, v |-> Null]
OpArgs(op, args) == [ok |-> TRUE, some |-> TRUE, v |-> [op |-> op, args |-> args]]
ParseErr(e) == [ok |-> FALSE, some |-> FALSE, v |-> [t |-> "err", e |-> e]]

check_len(p, len) == is_valid_len(p, len)

(* op_from_map, had it taken any key of the object that names an operator *)
op_from_map_any_key(table, value) ==
    IF value.t # "obj" THEN NoOp
    ELSE IF DOMAIN value.m \cap DOMAIN table = {} THEN NoOp
    ELSE LET key == CHOOSE k \in DOMAIN value.m \cap DOMAIN table : TRUE
             val == value.m[key]
             param_info == table[key]
             args == IF val.t = "arr" THEN val.a ELSE <<val>>
         IN  IF val.t # "arr" /\ ~can_accept_unary(param_info)
             THEN ParseErr("InvalidOperation")
             ELSE IF ~check_len(param_info, Len(args))
             THEN ParseErr("WrongArgumentCount")
             ELSE OpArgs(key, args)

op_from_map(table, value) ==
    IF value.t # "obj" THEN NoOp
    ELSE IF Cardinality(DOMAIN value.m) # 1 THEN NoOp
    ELSE LET key == CHOOSE k \in DOMAIN value.m : TRUE
             val == value.m[key]
         IN  IF key \notin DOMAIN table THEN NoOp
             ELSE LET param_info == table[key]
                      args == IF val.t = "arr" THEN val.a ELSE <<val>>
                  IN  IF val.t # "arr" /\ ~can_accept_unary(param_info)
                      THEN ParseErr("InvalidOperation")
                      ELSE IF ~check_len(param_info, Len(args))
                      THEN ParseErr("WrongArgumentCount")
                      ELSE OpArgs(key, args)

---------------------------------------------------------------------------
(* Option<T> *)
None == [some |-> FALSE, v |-> Null]
Some(x) == [some |-> TRUE, v |-> x]

(* truthy, had it been that of JavaScript, where every array is truthy *)
truthy_arrays(val) ==
    CASE val.t = "null" -> FALSE
      [] val.t = "bool" -> val.b
      [] val.t = "num" -> val.n # 0
      [] val.t = "str" -> val.s # <<>>
      [] val.t = "arr" -> TRUE
      [] val.t = "obj" -> TRUE

(* logic::truthy *)
truthy(val) ==
    CASE val.t = "null" -> FALSE
      [] val.t = "bool" -> val.b
      [] val.t = "num" -> val.n # 0
      [] val.t = "str" -> val.s # <<>>
      [] val.t = "arr" -> Len(val.a) # 0
      [] val.t = "obj" -> TRUE

(* strict_eq, had it compared arrays and objects by their contents *)
strict_eq_structural(first, second) == first = second

(* js_op::strict_eq on two distinct values (the arguments an operator is
   given are separate elements of a freshly built vector) *)
strict_eq(first, second) ==
    CASE first.t = "null" /\ second.t = "null" -> TRUE
      [] first.t = "bool" /\ second.t = "bool" -> first.b = second.b
      [] first.t = "num" /\ second.t = "num" -> first.n = second.n
      [] first.t = "str" /\ second.t = "str" -> first.s = second.s
      [] OTHER -> FALSE

strict_ne(first, second) == ~strict_eq(first, second)

---------------------------------------------------------------------------
(* decimal digits, i64 and its conversions *)
DigitVal ==
    ("0" :> 0) @@ ("1" :> 1) @@ ("2" :> 2) @@ ("3" :> 3) @@ ("4" :> 4) @@
    ("5" :> 5) @@ ("6" :> 6) @@ ("7" :> 7) @@ ("8" :> 8) @@ ("9" :> 9)
DigitChar == <<"0", "1", "2", "3", "4", "5", "6", "7", "8", "9">>

RECURSIVE digits_value(_, _)
digits_value(s, acc) ==
    IF s = <<>> THEN acc ELSE digits_value(Tail(s), 10 * acc + DigitVal[Head(s)])

(* str::parse::<i64> : [+-]? digit+ (the strings of the model are far too
   short to leave the range of i64) *)
parse_i64(s) ==
    LET signed == Len(s) > 0 /\ Head(s) \in {"+", "-"}
        body == IF signed THEN Tail(s) ELSE s
        mag == digits_value(body, 0)
        n == IF signed /\ Head(s) = "-" THEN -mag ELSE mag
    IN  IF body = <<>> \/ (\E i \in 1..Len(body) : body[i] \notin DOMAIN DigitVal)
        THEN [some |-> FALSE, v |-> 0]
        ELSE [some |-> TRUE, v |-> n]

RECURSIVE nat_to_string(_)
nat_to_string(n) ==
    IF n < 10 THEN <<DigitChar[n + 1]>>
    ELSE Append(nat_to_string(n \div 10), DigitChar[(n % 10) + 1])

(* i64::to_string / Number::to_string for an integer *)
int_to_string(i) == IF i < 0 THEN <<"-">> \o nat_to_string(-i) ELSE nat_to_string(i)

(* str::split(".") *)
RECURSIVE split(_, _, _)
split(s, i, cur) ==
    IF i > Len(s) THEN <<cur>>
    ELSE IF s[i] = "." THEN <<cur>> \o split(s, i + 1, <<>>)
    ELSE split(s, i + 1, Append(cur, s[i]))

---------------------------------------------------------------------------
(* js_op::to_string *)
RECURSIVE to_string(_)
RECURSIVE join_items(_, _)
join_items(items, i) ==
    IF i > Len(items) THEN <<>>
    ELSE (IF i > 1 THEN <<",">> ELSE <<>>)
         \o (IF items[i].t = "null" THEN <<>> ELSE to_string(items[i]))
         \o join_items(items, i + 1)

to_string(value) ==
    CASE value.t = "obj" ->
            <<"[", "o", "b", "j", "e", "c", "t", " ", "O", "b", "j", "e", "c", "t", "]">>
      [] value.t = "bool" ->
            IF value.b THEN <<"t", "r", "u", "e">> ELSE <<"f", "a", "l", "s", "e">>
      [] value.t = "null" -> <<"n", "u", "l", "l">>
      [] value.t = "num" -> int_to_string(value.n)
      [] value.t = "str" -> value.s
      [] value.t = "arr" -> join_items(value.a, 1)

NUMERICS == {"0", "1", "2", "3", "4", "5", "6", "7", "8", "9", ".", "-", "+", "e", "E"}

RECURSIVE trim_start(_)
trim_start(s) == IF s # <<>> /\ Head(s) = " " THEN trim_start(Tail(s)) ELSE s
RECURSIVE trim_end(_)
trim_end(s) ==
    IF s # <<>> /\ s[Len(s)] = " " THEN trim_end(SubSeq(s, 1, Len(s) - 1)) ELSE s

(* the fold of parse_float_string: the leading numeric characters, with at
   most one decimal point *)
RECURSIVE leading_numerics(_, _, _, _)
leading_numerics(s, i, acc, saw_decimal) ==
    IF i > Len(s) THEN acc
    ELSE IF s[i] \in NUMERICS
         THEN IF saw_decimal /\ s[i] = "." THEN acc
              ELSE leading_numerics(s, i + 1, Append(acc, s[i]), saw_decimal \/ s[i] = ".")
         ELSE acc

(* the words f64::from_str reads as an infinity or a NaN, sign aside *)
SpecialFloats ==
    {<<c1, c2, c3>> : c1 \in {"i", "I"}, c2 \in {"n", "N"}, c3 \in {"f", "F"}}
    \cup {<<c1, c2, c3>> : c1 \in {"n", "N"}, c2 \in {"a", "A"}, c3 \in {"n", "N"}}

(* str::parse::<f64>.  Integer literals and literals that no float grammar
   accepts are covered; a literal with a fraction or an exponent, and a
   literal that starts as an infinity or a NaN, has no arm. *)
parse_f64(s) ==
    LET p == parse_i64(s)
        unsigned == IF s # <<>> /\ Head(s) \in {"+", "-"} THEN Tail(s) ELSE s
    IN  CASE \A i \in 1..Len(s) : s[i] \in DOMAIN DigitVal \cup {"+", "-"} ->
                IF (\E i \in 2..Len(s) : s[i] \in {"+", "-"}) \/ ~p.some
                THEN [some |-> FALSE, v |-> 0] ELSE p
          [] /\ \E i \in 1..Len(s) : s[i] \notin NUMERICS
             /\ ~(Len(unsigned) >= 3 /\ SubSeq(unsigned, 1, 3) \in SpecialFloats) ->
                [some |-> FALSE, v |-> 0]

parse_float_string(val) ==
    LET lead == leading_numerics(trim_end(trim_start(val)), 1, <<>>, FALSE)
        popped == IF lead # <<>> /\ lead[Len(lead)] \in {"e", "E"}
                  THEN SubSeq(lead, 1, Len(lead) - 1) ELSE lead
    IN  IF lead = <<>> THEN [some |-> FALSE, v |-> 0] ELSE parse_f64(popped)

parse_float(val) ==
    CASE val.t = "num" -> [some |-> TRUE, v |-> val.n]
      [] val.t = "str" -> parse_float_string(val.s)
      [] OTHER -> parse_float_string(to_string(val))

(* An f64 computed from integers is a quotient [num, den] with den >= 0:
   den = 0 is an infinity or a NaN, the result of dividing by zero.
   whole(r) is the Result<f64, Error> r of the functions below, whose floats
   are whole numbers and are kept as integers. *)
whole(r) == [ok |-> r.ok, v |-> [num |-> r.v, den |-> 1]]

(* value::to_number_value: fract() of a whole number is 0.0, that of an
   infinity or a NaN is NaN, and Number::from_f64 is None for both of these *)
to_number_value(number) ==
    IF number.den # 0 /\ number.num % number.den = 0
    THEN Ok(Number(number.num \div number.den))
    ELSE IF number.den = 0 THEN Err("UnexpectedError")
    ELSE Ok([t |-> "num", f |-> number])

RECURSIVE parse_float_add_fold(_, _, _)
parse_float_add_fold(vals, i, total) ==
    IF i > Len(vals) THEN [ok |-> TRUE, v |-> total]
    ELSE LET cur == parse_float(vals[i])
         IN  IF ~cur.some THEN [ok |-> FALSE, v |-> 0]
             ELSE parse_float_add_fold(vals, i + 1, total + cur.v)

parse_float_add(vals) == parse_float_add_fold(vals, 1, 0)

RECURSIVE parse_float_mul_fold(_, _, _)
parse_float_mul_fold(vals, i, total) ==
    IF i > Len(vals) THEN [ok |-> TRUE, v |-> total]
    ELSE LET cur == parse_float(vals[i])
         IN  IF ~cur.some THEN [ok |-> FALSE, v |-> 0]
             ELSE parse_float_mul_fold(vals, i + 1, total * cur.v)

parse_float_mul(vals) == parse_float_mul_fold(vals, 1, 1)

(* the order of str on the characters of a string: that of their codes
   (the characters a string literal cannot hold are named, not written) *)
Ascii ==
    <<" ", "!", "quotation mark", "#", "$", "%", "&", "'", "(", ")", "*", "+", ",", "-", ".", "/",
      "0", "1", "2", "3", "4", "5", "6", "7", "8", "9", ":", ";", "<", "=", ">", "?",
      "@", "A", "B", "C", "D", "E", "F", "G", "H", "I", "J", "K", "L", "M", "N", "O",
      "P", "Q", "R", "S", "T", "U", "V", "W", "X", "Y", "Z", "[", "reverse solidus", "]", "^", "_",
      "grave accent", "a", "b", "c", "d", "e", "f", "g", "h", "i", "j", "k", "l", "m", "n", "o",
      "p", "q", "r", "s", "t", "u", "v", "w", "x", "y", "z", "{", "|", "}", "~">>

CharCode(c) == 31 + CHOOSE i \in 1..Len(Ascii) : Ascii[i] = c

(* String's PartialOrd: -1, 0 or 1 as f is less than, equal to or greater
   than s *)
RECURSIVE str_cmp(_, _, _)
str_cmp(f, s, i) ==
    IF i > Len(f) /\ i > Len(s) THEN 0
    ELSE IF i > Len(f) THEN -1
    ELSE IF i > Len(s) THEN 1
    ELSE IF f[i] = s[i] THEN str_cmp(f, s, i + 1)
    ELSE IF CharCode(f[i]) < CharCode(s[i]) THEN -1 ELSE 1

(* js_op::to_primitive_number *)
to_primitive_number(value) ==
    CASE value.t = "obj" -> [some |-> FALSE, v |-> 0]
      [] value.t = "arr" -> [some |-> FALSE, v |-> 0]
      [] value.t = "bool" -> [some |-> TRUE, v |-> IF value.b THEN 1 ELSE 0]
      [] value.t = "null" -> [some |-> TRUE, v |-> 0]
      [] value.t = "num" -> [some |-> TRUE, v |-> value.n]
      [] value.t = "str" -> [some |-> FALSE, v |-> 0]

str_to_number(string) ==
    IF string = <<>> THEN [some |-> TRUE, v |-> 0] ELSE parse_f64(string)

(* enum Primitive *)
PrimitiveString(s) == [prim |-> "String", s |-> s, n |-> 0]
PrimitiveNumber(n) == [prim |-> "Number", s |-> <<>>, n |-> n]

(* js_op::to_primitive with the Number hint *)
to_primitive(value) ==
    IF to_primitive_number(value).some
    THEN PrimitiveNumber(to_primitive_number(value).v)
    ELSE PrimitiveString(to_string(value))

to_number(value) ==
    IF to_primitive(value).prim = "Number"
    THEN [some |-> TRUE, v |-> to_primitive(value).n]
    ELSE str_to_number(to_primitive(value).s)

(* js_op::abstract_eq *)
RECURSIVE abstract_eq(_, _)
abstract_eq(first, second) ==
    CASE first.t = "null" /\ second.t = "null" -> TRUE
      [] first.t = "num" /\ second.t = "num" -> first.n = second.n
      [] first.t = "str" /\ second.t = "str" -> first.s = second.s
      [] first.t = "bool" /\ second.t = "bool" -> first.b = second.b
      [] first.t = "num" /\ second.t = "str" ->
            str_to_number(second.s).some /\ first.n = str_to_number(second.s).v
      [] first.t = "str" /\ second.t = "num" ->
            str_to_number(first.s).some /\ str_to_number(first.s).v = second.n
      [] first.t = "bool" /\ second.t # "bool" ->
            abstract_eq(Number(IF first.b THEN 1 ELSE 0), second)
      [] first.t # "bool" /\ second.t = "bool" ->
            abstract_eq(first, Number(IF second.b THEN 1 ELSE 0))
      [] first.t \in {"str", "num"} /\ second.t \in {"arr", "obj"} ->
            abstract_eq(first, String(to_string(second)))
      [] first.t \in {"arr", "obj"} /\ second.t \in {"str", "num"} ->
            abstract_eq(String(to_string(first)), second)
      [] OTHER -> FALSE

abstract_ne(first, second) == ~abstract_eq(first, second)

(* the match of abstract_lt on the two primitives *)
primitive_lt(f, s) ==
    CASE f.prim = "String" /\ s.prim = "String" -> str_cmp(f.s, s.s, 1) < 0
      [] f.prim = "Number" /\ s.prim = "Number" -> f.n < s.n
      [] f.prim = "String" /\ s.prim = "Number" ->
            str_to_number(f.s).some /\ str_to_number(f.s).v < s.n
      [] f.prim = "Number" /\ s.prim = "String" ->
            str_to_number(s.s).some /\ f.n < str_to_number(s.s).v

abstract_lt(first, second) == primitive_lt(to_primitive(first), to_primitive(second))

(* the match of abstract_gt, had it ordered two strings by their lengths *)
primitive_gt_by_length(f, s) ==
    CASE f.prim = "String" /\ s.prim = "String" -> Len(f.s) > Len(s.s)
      [] f.prim = "Number" /\ s.prim = "Number" -> f.n > s.n
      [] f.prim = "String" /\ s.prim = "Number" ->
            str_to_number(f.s).some /\ str_to_number(f.s).v > s.n
      [] f.prim = "Number" /\ s.prim = "String" ->
            str_to_number(s.s).some /\ f.n > str_to_number(s.s).v

(* the match of abstract_gt on the two primitives *)
primitive_gt(f, s) ==
    CASE f.prim = "String" /\ s.prim = "String" -> str_cmp(f.s, s.s, 1) > 0
      [] f.prim = "Number" /\ s.prim = "Number" -> f.n > s.n
      [] f.prim = "String" /\ s.prim = "Number" ->
            str_to_number(f.s).some /\ str_to_number(f.s).v > s.n
      [] f.prim = "Number" /\ s.prim = "String" ->
            str_to_number(s.s).some /\ f.n > str_to_number(s.s).v

abstract_gt(first, second) == primitive_gt(to_primitive(first), to_primitive(second))

abstract_lte(first, second) == abstract_lt(first, second) \/ abstract_eq(first, second)

abstract_gte(first, second) == abstract_gt(first, second) \/ abstract_eq(first, second)

(* abstract_max: acc is None for the negative infinity the fold starts from *)
RECURSIVE abstract_max_fold(_, _, _)
abstract_max_fold(items, i, acc) ==
    IF i > Len(items) THEN [ok |-> TRUE, v |-> acc.v]
    ELSE IF ~to_number(items[i]).some THEN [ok |-> FALSE, v |-> 0]
    ELSE abstract_max_fold(items, i + 1,
                           IF ~acc.some \/ to_number(items[i]).v > acc.v
                           THEN [some |-> TRUE, v |-> to_number(items[i]).v] ELSE acc)

abstract_max(items) == abstract_max_fold(items, 1, [some |-> FALSE, v |-> 0])

(* abstract_min: acc is None for the infinity the fold starts from *)
RECURSIVE abstract_min_fold(_, _, _)
abstract_min_fold(items, i, acc) ==
    IF i > Len(items) THEN [ok |-> TRUE, v |-> acc.v]
    ELSE IF ~to_number(items[i]).some THEN [ok |-> FALSE, v |-> 0]
    ELSE abstract_min_fold(items, i + 1,
                           IF ~acc.some \/ to_number(items[i]).v < acc.v
                           THEN [some |-> TRUE, v |-> to_number(items[i]).v] ELSE acc)

abstract_min(items) == abstract_min_fold(items, 1, [some |-> FALSE, v |-> 0])

abstract_minus(first, second) ==
    IF ~to_number(first).some \/ ~to_number(second).some THEN [ok |-> FALSE, v |-> 0]
    ELSE [ok |-> TRUE, v |-> to_number(first).v - to_number(second).v]

(* first / second and first % second of f64, on whole numbers: the quotient
   with a positive denominator; the remainder has the sign of the dividend *)
abstract_div(first, second) ==
    IF ~to_number(first).some \/ ~to_number(second).some THEN [ok |-> FALSE, v |-> 0]
    ELSE [ok |-> TRUE,
          v |-> IF to_number(second).v < 0
                THEN [num |-> -to_number(first).v, den |-> -to_number(second).v]
                ELSE [num |-> to_number(first).v, den |-> to_number(second).v]]

abstract_mod(first, second) ==
    IF ~to_number(first).some \/ ~to_number(second).some THEN [ok |-> FALSE, v |-> 0]
    ELSE LET a == to_number(first).v
             b == to_number(second).v
             abs_a == IF a < 0 THEN -a ELSE a
             abs_b == IF b < 0 THEN -b ELSE b
         IN  [ok |-> TRUE,
              v |-> IF b = 0 THEN [num |-> 0, den |-> 0]
                    ELSE [num |-> (IF a < 0 THEN -1 ELSE 1) * (abs_a % abs_b), den |-> 1]]

to_negative(val) ==
    IF to_number(val).some THEN [ok |-> TRUE, v |-> -1 * to_number(val).v]
    ELSE [ok |-> FALSE, v |-> 0]

(* a Result<f64, Error> handed to to_number_value; the functions above fail
   with InvalidArgument only *)
and_then_to_number_value(r) == IF r.ok THEN to_number_value(r.v) ELSE Err("InvalidArgument")

(* numeric.rs *)
abstract_cmp(func, first, second) ==
    CASE func = "lt" -> abstract_lt(first, second)
      [] func = "lte" -> abstract_lte(first, second)
      [] func = "gt" -> abstract_gt(first, second)
      [] func = "gte" -> abstract_gte(first, second)

(* compare, had it looked at its first two items only *)
compare_pair(func, items) == Ok(Bool(abstract_cmp(func, items[1], items[2])))

compare(func, items) ==
    IF Len(items) = 2 THEN Ok(Bool(abstract_cmp(func, items[1], items[2])))
    ELSE Ok(Bool(abstract_cmp(func, items[1], items[2])
                 /\ abstract_cmp(func, items[2], items[3])))

minus(items) ==
    and_then_to_number_value(whole(IF Len(items) = 1 THEN to_negative(items[1])
                                   ELSE abstract_minus(items[1], items[2])))

(* array::merge *)
RECURSIVE merge_fold(_, _, _)
merge_fold(items, i, acc) ==
    IF i > Len(items) THEN acc
    ELSE merge_fold(items, i + 1,
                    IF items[i].t = "arr" THEN acc \o items[i].a ELSE Append(acc, items[i]))

merge(items) == Ok(Array(merge_fold(items, 1, <<>>)))

(* str::contains with a str pattern *)
str_contains(haystack_string, needle_string) ==
    /\ Len(needle_string) <= Len(haystack_string)
    /\ \E i \in 0..(Len(haystack_string) - Len(needle_string)) :
           SubSeq(haystack_string, i + 1, i + Len(needle_string)) = needle_string

(* in_, had it compared the elements of an array haystack as == does *)
in_coercing(items) ==
    Ok(Bool(items[2].t = "arr"
            /\ \E j \in 1..Len(items[2].a) : abstract_eq(items[2].a[j], items[1])))

(* array::in_ ; slice::contains is the equality of serde_json::Value *)
in_(items) ==
    LET needle == items[1]
        haystack == items[2]
    IN  CASE haystack.t = "null" -> Ok(Bool(FALSE))
          [] haystack.t = "arr" ->
                Ok(Bool(\E j \in 1..Len(haystack.a) : haystack.a[j] = needle))
          [] haystack.t = "str" ->
                IF needle.t = "str"
                THEN Ok(Bool(str_contains(haystack.s, needle.s)))
                ELSE Err("InvalidArgument")
          [] OTHER -> Err("InvalidArgument")

(* string::cat *)
RECURSIVE cat_fold(_, _, _)
cat_fold(items, i, rv) ==
    IF i > Len(items) THEN rv ELSE cat_fold(items, i + 1, rv \o to_string(items[i]))

cat(items) == Ok(String(cat_fold(items, 1, <<>>)))

(* i64::MIN, the one i64 whose negation is no i64.  The integers of this
   model are 32 bits wide: the least of them that can still be written
   stands for it, and nothing but its place at the end of the range is
   used of it. *)
I64_MIN == -2147483647

(* idx.abs().try_into() : i64 -> usize.  abs overflows on i64::MIN alone:
   the build panics there or wraps to i64::MIN, which is no usize *)
abs_try_into(idx) ==
    IF idx = I64_MIN
    THEN IF overflow_checks THEN [st |-> "panic", v |-> 0] ELSE [st |-> "err", v |-> 0]
    ELSE [st |-> "ok", v |-> IF idx < 0 THEN -idx ELSE idx]

(* char::len_utf8: a character of Ascii takes one byte; the characters of
   more than one byte are named, not written *)
len_utf8(c) ==
    CASE c = "e acute" -> 2
      [] c = "euro sign" -> 3
      [] OTHER -> 1

(* String::len: the length in bytes *)
RECURSIVE String_len(_)
String_len(string) ==
    IF string = <<>> THEN 0 ELSE len_utf8(Head(string)) + String_len(Tail(string))

(* string.chars().skip(start_idx).take(count_in_substr).collect() *)
skip_take(string, start_idx, count_in_substr) ==
    IF start_idx >= Len(string) \/ count_in_substr = 0 THEN <<>>
    ELSE SubSeq(string, start_idx + 1,
                IF start_idx + count_in_substr > Len(string) THEN Len(string)
                ELSE start_idx + count_in_substr)

(* substr from start_idx on, limit being the Option of the third argument *)
substr_end(string, string_len, start_idx, limit) ==
    IF ~limit.some
    THEN Ok(String(skip_take(string, start_idx,
                             IF string_len < start_idx THEN 0 ELSE string_len - start_idx)))
    ELSE LET l == limit.v
             limit_abs == abs_try_into(l)
             end_idx ==
                 IF l < 0
                 THEN IF limit_abs.v > string_len THEN 0 ELSE string_len - limit_abs.v
                 ELSE IF start_idx + limit_abs.v < string_len
                      THEN start_idx + limit_abs.v ELSE string_len
         IN  CASE limit_abs.st = "panic" -> Panic
               [] limit_abs.st = "err" -> Err("InvalidArgument")
               [] OTHER ->
                     Ok(String(skip_take(string, start_idx,
                                         IF end_idx < start_idx THEN 0
                                         ELSE end_idx - start_idx)))

(* string::substr *)
substr(items) ==
    LET string_arg == items[1]
        idx_arg == items[2]
        limit == IF Len(items) > 2 THEN Some(items[3].n) ELSE [some |-> FALSE, v |-> 0]
        string_len == String_len(string_arg.s)
        idx_abs == abs_try_into(idx_arg.n)
        start_idx ==
            IF idx_arg.n < 0
            THEN IF idx_abs.v > string_len THEN 0 ELSE string_len - idx_abs.v
            ELSE IF string_len < idx_abs.v THEN string_len ELSE idx_abs.v
    IN  IF string_arg.t # "str" THEN Err("InvalidArgument")
        ELSE IF idx_arg.t # "num" THEN Err("InvalidArgument")
        ELSE IF Len(items) > 2 /\ items[3].t # "num" THEN Err("InvalidArgument")
        ELSE IF idx_abs.st = "panic" THEN Panic
        ELSE IF idx_abs.st = "err" THEN Err("InvalidArgument")
        ELSE substr_end(string_arg.s, string_len, start_idx, limit)

(* impure::log *)
log(items) == [ok |-> TRUE, v |-> items[1], out |-> <<items[1]>>]

(* Operator::execute: the function of the OPERATOR_MAP entry *)
Operator_execute(op, items) ==
    CASE op = <<"=", "=">> -> Ok(Bool(abstract_eq(items[1], items[2])))
      [] op = <<"!", "=">> -> Ok(Bool(abstract_ne(items[1], items[2])))
      [] op = <<"=", "=", "=">> -> Ok(Bool(strict_eq(items[1], items[2])))
      [] op = <<"!", "=", "=">> -> Ok(Bool(strict_ne(items[1], items[2])))
      [] op = <<"!">> -> Ok(Bool(~truthy(items[1])))
      [] op = <<"!", "!">> -> Ok(Bool(truthy(items[1])))
      [] op = <<"<">> -> compare("lt", items)
      [] op = <<"<", "=">> -> compare("lte", items)
      [] op = <<">">> -> compare("gt", items)
      [] op = <<">", "=">> -> compare("gte", items)
      [] op = <<"+">> -> and_then_to_number_value(whole(parse_float_add(items)))
      [] op = <<"-">> -> minus(items)
      [] op = <<"*">> -> and_then_to_number_value(whole(parse_float_mul(items)))
      [] op = <<"/">> -> and_then_to_number_value(abstract_div(items[1], items[2]))
      [] op = <<"%">> -> and_then_to_number_value(abstract_mod(items[1], items[2]))
      [] op = <<"m", "a", "x">> -> and_then_to_number_value(whole(abstract_max(items)))
      [] op = <<"m", "i", "n">> -> and_then_to_number_value(whole(abstract_min(items)))
      [] op = <<"m", "e", "r", "g", "e">> -> merge(items)
      [] op = <<"i", "n">> -> in_(items)
      [] op = <<"c", "a", "t">> -> cat(items)
      [] op = <<"s", "u", "b", "s", "t", "r">> -> substr(items)
      [] op = <<"l", "o", "g">> -> log(items)

---------------------------------------------------------------------------
(* data.rs: KeyType and its TryFrom<&Value> *)
KeyNull == [kt |-> "Null", s |-> <<>>, i |-> 0]
KeyString(s) == [kt |-> "String", s |-> s, i |-> 0]
KeyNumber(i) == [kt |-> "Number", s |-> <<>>, i |-> i]

KeyType_try_from(value) ==
    CASE value.t = "null" -> [ok |-> TRUE, v |-> KeyNull]
      [] value.t = "str" -> [ok |-> TRUE, v |-> KeyString(value.s)]
      [] value.t = "num" -> [ok |-> TRUE, v |-> KeyNumber(value.n)]
      [] OTHER -> [ok |-> FALSE, v |-> KeyNull]

(* an Option that is never returned: the lookup panics *)
Unwinding == [some |-> FALSE, v |-> Panic.v]

(* A get operation that supports negative indexes;
   idx.abs().try_into().ok()? gives None where the conversion fails *)
get(slice, idx) ==
    LET vec_len == Len(slice)
        usize_idx == abs_try_into(idx)
    IN  IF usize_idx.st = "panic" THEN Unwinding
        ELSE IF usize_idx.st = "err" THEN None
        ELSE IF idx >= 0
        THEN IF usize_idx.v < vec_len THEN Some(slice[usize_idx.v + 1]) ELSE None
        ELSE IF usize_idx.v > vec_len THEN None
             ELSE IF vec_len - usize_idx.v < vec_len
                  THEN Some(slice[vec_len - usize_idx.v + 1]) ELSE None

(* one step of the fold in get_str_key *)
get_segment(acc, i) ==
    IF ~acc.some THEN acc
    ELSE CASE acc.v.t = "obj" ->
                  IF i \in DOMAIN acc.v.m THEN Some(acc.v.m[i]) ELSE None
           [] acc.v.t = "arr" ->
                  LET n == parse_i64(i)
                  IN  IF n.some THEN get(acc.v.a, n.v) ELSE None
           [] acc.v.t = "str" ->
                  LET n == parse_i64(i)
                      c == IF n.some THEN get(acc.v.s, n.v) ELSE None
                  IN  IF c.some THEN Some(String(<<c.v>>)) ELSE c
           [] OTHER -> None

RECURSIVE get_path(_, _, _)
get_path(acc, segs, i) ==
    IF i > Len(segs) THEN acc ELSE get_path(get_segment(acc, segs[i]), segs, i + 1)

get_str_key(dt, k) ==
    IF k = <<>> THEN Some(dt)
    ELSE IF dt.t \in {"obj", "arr", "str"}
         THEN get_path(Some(dt), split(k, 1, <<>>), 1)
         ELSE None

get_key(dt, key) ==
    CASE key.kt = "Null" -> Some(dt)
      [] key.kt = "String" -> get_str_key(dt, key.s)
      [] key.kt = "Number" ->
            CASE dt.t = "obj" -> get_str_key(dt, int_to_string(key.i))
              [] dt.t = "arr" -> get(dt.a, key.i)
              [] dt.t = "str" ->
                    LET c == get(dt.s, key.i)
                    IN  IF c.some THEN Some(String(<<c.v>>)) ELSE c
              [] OTHER -> None

---------------------------------------------------------------------------
(* value.rs: Parsed, and the Parser implementations of op/mod.rs *)
Raw(value) == [kind |-> "Raw", operator |-> <<>>, arguments |-> <<>>, value |-> value]
Operation(op, args) ==
    [kind |-> "Operation", operator |-> op, arguments |-> args, value |-> Null]
LazyOperation(op, args) ==
    [kind |-> "LazyOperation", operator |-> op, arguments |-> args, value |-> Null]
DataOperation(op, args) ==
    [kind |-> "DataOperation", operator |-> op, arguments |-> args, value |-> Null]

ParseOk(parsed) == [ok |-> TRUE, some |-> TRUE, v |-> parsed]

(* a parse error seen as the Result of an evaluation *)
ToResult(parsed) == [ok |-> FALSE, v |-> parsed.v, out |-> <<>>]

(* expr?.map(F) on a Result<Option<T>>: an error or a None is passed on *)
IfSome(opt, F(_)) == IF opt.ok /\ opt.some THEN F(opt.v) ELSE opt

(* expr? on the Result of an evaluation, F being the rest of the function;
   what expr wrote to stdout stays written *)
Try(r, F(_)) == IF ~r.ok THEN r ELSE After(r.out, F(r.v))

(* Parsed::from_value(value)? inside an operator, F being the rest *)
TryParsed(p, F(_)) == IF ~p.ok THEN ToResult(p) ELSE F(p.v)

RECURSIVE Parsed_from_value(_)
RECURSIVE Parsed_from_values(_, _, _)

LazyOperation_from_value(value) ==
    IfSome(op_from_map(LAZY_OPERATOR_MAP, value),
           LAMBDA op : ParseOk(LazyOperation(op.op, op.args)))

(* Operation::from_value, had it left the arguments as they were written *)
Operation_from_value_shallow(value) ==
    IfSome(op_from_map(OPERATOR_MAP, value),
           LAMBDA op : ParseOk(Operation(op.op, [j \in 1..Len(op.args) |-> Raw(op.args[j])])))

Operation_from_value(value) ==
    IfSome(op_from_map(OPERATOR_MAP, value),
           LAMBDA op : IfSome(Parsed_from_values(op.args, 1, <<>>),
                              LAMBDA arguments : ParseOk(Operation(op.op, arguments))))

DataOperation_from_value(value) ==
    IfSome(op_from_map(DATA_OPERATOR_MAP, value),
           LAMBDA op : IfSome(Parsed_from_values(op.args, 1, <<>>),
                              LAMBDA arguments : ParseOk(DataOperation(op.op, arguments))))

Raw_from_value(value) == ParseOk(Raw(value))

(* a?.or(b?).or(c?).or(Some(raw)), all of a, b and c being computed first *)
first_some(o, l, d, raw) ==
    IF ~o.ok THEN o
    ELSE IF ~l.ok THEN l
    ELSE IF ~d.ok THEN d
    ELSE IF o.some THEN o
    ELSE IF l.some THEN l
    ELSE IF d.some THEN d
    ELSE raw

Parsed_from_value(value) ==
    first_some(Operation_from_value(value), LazyOperation_from_value(value),
               DataOperation_from_value(value), Raw_from_value(value))

Parsed_from_values(values, i, acc) ==
    IF i > Len(values) THEN ParseOk(acc)
    ELSE IfSome(Parsed_from_value(values[i]),
                LAMBDA p : Parsed_from_values(values, i + 1, Append(acc, p)))

---------------------------------------------------------------------------
(* Evaluation *)
RECURSIVE Parsed_evaluate(_, _)
RECURSIVE evaluate_arguments(_, _, _, _)
RECURSIVE parse_and_evaluate(_, _)
RECURSIVE LazyOperator_execute(_, _, _)
RECURSIVE DataOperator_execute(_, _, _)

(* Parsed::from_value(value)?.evaluate(data)? as the lazy and data operators
   write it for an argument *)
parse_and_evaluate(value, dt) ==
    TryParsed(Parsed_from_value(value), LAMBDA parsed : Parsed_evaluate(parsed, dt))

(* the map / collect over the arguments of an Operation or DataOperation *)
evaluate_arguments(arguments, dt, i, acc) ==
    IF i > Len(arguments) THEN Ok(acc)
    ELSE Try(Parsed_evaluate(arguments[i], dt),
             LAMBDA e : evaluate_arguments(arguments, dt, i + 1, Append(acc, e)))

Raw_evaluate(parsed, dt) == Ok(parsed.value)

Operation_evaluate(parsed, dt) ==
    Try(evaluate_arguments(parsed.arguments, dt, 1, <<>>),
        LAMBDA arguments : Operator_execute(parsed.operator, arguments))

LazyOperation_evaluate(parsed, dt) ==
    LazyOperator_execute(parsed.operator, dt, parsed.arguments)

DataOperation_evaluate(parsed, dt) ==
    Try(evaluate_arguments(parsed.arguments, dt, 1, <<>>),
        LAMBDA arguments : DataOperator_execute(parsed.operator, dt, arguments))

Parsed_evaluate(parsed, dt) ==
    CASE parsed.kind = "Operation" -> Operation_evaluate(parsed, dt)
      [] parsed.kind = "LazyOperation" -> LazyOperation_evaluate(parsed, dt)
      [] parsed.kind = "DataOperation" -> DataOperation_evaluate(parsed, dt)
      [] parsed.kind = "Raw" -> Raw_evaluate(parsed, dt)

---------------------------------------------------------------------------
(* data.rs: var, missing, missing_some *)
unwrap_or(opt, default) == IF opt.some THEN opt.v ELSE default

var(dt, args) ==
    LET arg_count == Len(args)
    IN  IF arg_count = 0 THEN Ok(dt)
        ELSE LET key == KeyType_try_from(args[1])
             IN  IF ~key.ok THEN Err("InvalidVariableKey")
                 ELSE IF get_key(dt, key.v) = Unwinding THEN Panic
                 ELSE Try(IF arg_count < 2 THEN Ok(NULL)
                          ELSE parse_and_evaluate(args[2], dt),
                          LAMBDA default : Ok(unwrap_or(get_key(dt, key.v), default)))

RECURSIVE missing_fold(_, _, _, _)
missing_fold(dt, adjusted_args, i, missing_keys) ==
    IF i > Len(adjusted_args) THEN Ok(Array(missing_keys))
    ELSE LET key == KeyType_try_from(adjusted_args[i])
         IN  IF ~key.ok THEN Err("InvalidVariableKey")
             ELSE IF key.v.kt # "Null" /\ get_key(dt, key.v) = Unwinding THEN Panic
             ELSE missing_fold(dt, adjusted_args, i + 1,
                               IF key.v.kt # "Null" /\ ~get_key(dt, key.v).some
                               THEN Append(missing_keys, adjusted_args[i])
                               ELSE missing_keys)

(* missing, had it taken its arguments as the key list in every case *)
missing_flat(dt, args) == missing_fold(dt, args, 1, <<>>)

missing(dt, args) ==
    LET adjusted_args == IF Len(args) > 0 /\ args[1].t = "arr" THEN args[1].a ELSE args
    IN  missing_fold(dt, adjusted_args, 1, <<>>)

contains(vec, x) == \E j \in 1..Len(vec) : vec[j] = x

(* one step of the fold of missing_some over the keys: the count of present
   keys and the missing keys after the key *)
missing_some_step(dt, threshold, key, acc) ==
    IF acc.present_count >= threshold THEN acc
    ELSE LET parsed_key == KeyType_try_from(key)
         IN  IF ~parsed_key.ok THEN [acc EXCEPT !.ok = FALSE]
             ELSE IF parsed_key.v.kt = "Null" THEN acc
             ELSE IF get_key(dt, parsed_key.v) = Unwinding
             THEN [acc EXCEPT !.ok = FALSE, !.panic = TRUE]
             ELSE IF ~get_key(dt, parsed_key.v).some /\ ~contains(acc.missing_keys, key)
             THEN [acc EXCEPT !.missing_keys = Append(@, key)]
             ELSE [acc EXCEPT !.present_count = @ + 1]

RECURSIVE missing_some_fold(_, _, _, _, _)
missing_some_fold(dt, threshold, keys, i, acc) ==
    IF i > Len(keys) \/ ~acc.ok THEN acc
    ELSE missing_some_fold(dt, threshold, keys, i + 1,
                           missing_some_step(dt, threshold, keys[i], acc))

missing_some(dt, args) ==
    LET threshold_arg == args[1]
        keys_arg == args[2]
    IN  IF ~(threshold_arg.t = "num" /\ threshold_arg.n >= 0) THEN Err("InvalidArgument")
        ELSE IF keys_arg.t # "arr" THEN Err("InvalidArgument")
        ELSE LET f == missing_some_fold(dt, threshold_arg.n, keys_arg.a, 1,
                                        [ok |-> TRUE, panic |-> FALSE, present_count |-> 0,
                                         missing_keys |-> <<>>])
             IN  IF f.panic THEN Panic
                 ELSE IF ~f.ok THEN Err("InvalidVariableKey")
                 ELSE IF f.present_count >= threshold_arg.n THEN Ok(Array(<<>>))
                 ELSE Ok(Array(f.missing_keys))

DataOperator_execute(op, dt, items) ==
    CASE op = <<"v", "a", "r">> -> var(dt, items)
      [] op = <<"m", "i", "s", "s", "i", "n", "g">> -> missing(dt, items)
      [] op = <<"m", "i", "s", "s", "i", "n", "g", "_", "s", "o", "m", "e">> ->
            missing_some(dt, items)

---------------------------------------------------------------------------
(* logic.rs: if_, or, and *)
RECURSIVE if_fold(_, _, _, _)
if_fold(dt, args, i, last_res) ==
    IF i > Len(args) THEN Ok(last_res.last_eval)
    ELSE IF last_res.should_return THEN if_fold(dt, args, i + 1, last_res)
    ELSE IF (i - 1) % 2 = 0
         THEN Try(parse_and_evaluate(args[i], dt),
                  LAMBDA eval : if_fold(dt, args, i + 1,
                                        [last_eval |-> eval, was_truthy |-> truthy(eval),
                                         should_return |-> FALSE]))
         ELSE IF last_res.was_truthy
              THEN Try(parse_and_evaluate(args[i], dt),
                       LAMBDA t_eval : if_fold(dt, args, i + 1,
                                               [last_eval |-> t_eval, was_truthy |-> TRUE,
                                                should_return |-> TRUE]))
              ELSE if_fold(dt, args, i + 1, [last_res EXCEPT !.last_eval = NULL])

(* if_, had a failed condition left its value as the result *)
RECURSIVE if_fold_keep(_, _, _, _)
if_fold_keep(dt, args, i, last_res) ==
    IF i > Len(args) THEN Ok(last_res.last_eval)
    ELSE IF last_res.should_return THEN if_fold_keep(dt, args, i + 1, last_res)
    ELSE IF (i - 1) % 2 = 0 \/ last_res.was_truthy
         THEN Try(parse_and_evaluate(args[i], dt),
                  LAMBDA eval : if_fold_keep(dt, args, i + 1,
                                             [last_eval |-> eval, was_truthy |-> truthy(eval),
                                              should_return |-> (i - 1) % 2 = 1]))
         ELSE if_fold_keep(dt, args, i + 1, last_res)

if_keep(dt, args) ==
    CASE Len(args) = 0 -> Ok(NULL)
      [] Len(args) = 1 -> parse_and_evaluate(args[1], dt)
      [] OTHER -> if_fold_keep(dt, args, 1,
                               [last_eval |-> NULL, was_truthy |-> FALSE,
                                should_return |-> FALSE])

if_(dt, args) ==
    CASE Len(args) = 0 -> Ok(NULL)
      [] Len(args) = 1 -> parse_and_evaluate(args[1], dt)
      [] OTHER -> if_fold(dt, args, 1,
                          [last_eval |-> NULL, was_truthy |-> FALSE,
                           should_return |-> FALSE])

(* OrResult and AndResult *)
Uninitialized == [state |-> "Uninitialized", v |-> NULL]
Truthy(val) == [state |-> "Truthy", v |-> val]
Falsey(val) == [state |-> "Falsey", v |-> val]
Current(val) == [state |-> "Current", v |-> val]

RECURSIVE or_fold(_, _, _, _)
or_fold(dt, args, i, last_eval) ==
    IF i > Len(args) THEN Ok(last_eval)
    ELSE IF last_eval.state = "Truthy" THEN or_fold(dt, args, i + 1, last_eval)
    ELSE Try(parse_and_evaluate(args[i], dt),
             LAMBDA evaluated : or_fold(dt, args, i + 1,
                                        IF truthy(evaluated) THEN Truthy(evaluated)
                                        ELSE Current(evaluated)))

(* or, had it parsed its whole argument list before evaluating any of it *)
or_parse_all(dt, args) ==
    TryParsed(Parsed_from_values(args, 1, <<>>),
              LAMBDA parsed : Try(or_fold(dt, args, 1, Uninitialized),
                                  LAMBDA eval : Ok(eval.v)))

(* or, had it returned the truthiness of the value it stops at *)
or_as_bool(dt, args) ==
    Try(or_fold(dt, args, 1, Uninitialized), LAMBDA eval : Ok(Bool(truthy(eval.v))))

or(dt, args) ==
    Try(or_fold(dt, args, 1, Uninitialized),
        LAMBDA eval : IF eval.state \in {"Truthy", "Current"} THEN Ok(eval.v)
                      ELSE Err("UnexpectedError"))

RECURSIVE and_fold(_, _, _, _)
and_fold(dt, args, i, last_eval) ==
    IF i > Len(args) THEN Ok(last_eval)
    ELSE IF last_eval.state = "Falsey" THEN and_fold(dt, args, i + 1, last_eval)
    ELSE Try(parse_and_evaluate(args[i], dt),
             LAMBDA evaluated : and_fold(dt, args, i + 1,
                                         IF ~truthy(evaluated) THEN Falsey(evaluated)
                                         ELSE Current(evaluated)))

and(dt, args) ==
    Try(and_fold(dt, args, 1, Uninitialized),
        LAMBDA eval : IF eval.state \in {"Falsey", "Current"} THEN Ok(eval.v)
                      ELSE Err("UnexpectedError"))

---------------------------------------------------------------------------
(* array.rs: map, filter, reduce, all, some, none *)
(* the items of map, filter and reduce: an array, or null for no items *)
items_of(evaluated_items) ==
    CASE evaluated_items.t = "arr" -> Some(evaluated_items.a)
      [] evaluated_items.t = "null" -> Some(<<>>)
      [] OTHER -> None

RECURSIVE map_collect(_, _, _, _)
map_collect(parsed_expression, values, i, acc) ==
    IF i > Len(values) THEN Ok(Array(acc))
    ELSE Try(Parsed_evaluate(parsed_expression, values[i]),
             LAMBDA e : map_collect(parsed_expression, values, i + 1, Append(acc, e)))

map(dt, args) ==
    LET items == args[1]
        expression == args[2]
    IN  Try(parse_and_evaluate(items, dt),
            LAMBDA evaluated_items :
                IF ~items_of(evaluated_items).some THEN Err("InvalidArgument")
                ELSE TryParsed(Parsed_from_value(expression),
                               LAMBDA parsed_expression :
                                   map_collect(parsed_expression,
                                               items_of(evaluated_items).v, 1, <<>>)))

(* the fold of filter, had it kept what the predicate returns *)
RECURSIVE filter_fold_predicates(_, _, _, _)
filter_fold_predicates(parsed_expression, values, i, filtered) ==
    IF i > Len(values) THEN Ok(Array(filtered))
    ELSE Try(Parsed_evaluate(parsed_expression, values[i]),
             LAMBDA predicate :
                 filter_fold_predicates(parsed_expression, values, i + 1,
                                        IF truthy(predicate) THEN Append(filtered, predicate)
                                        ELSE filtered))

RECURSIVE filter_fold(_, _, _, _)
filter_fold(parsed_expression, values, i, filtered) ==
    IF i > Len(values) THEN Ok(Array(filtered))
    ELSE Try(Parsed_evaluate(parsed_expression, values[i]),
             LAMBDA predicate :
                 filter_fold(parsed_expression, values, i + 1,
                             IF truthy(predicate) THEN Append(filtered, values[i])
                             ELSE filtered))

filter(dt, args) ==
    LET items == args[1]
        expression == args[2]
    IN  Try(parse_and_evaluate(items, dt),
            LAMBDA evaluated_items :
                IF ~items_of(evaluated_items).some THEN Err("InvalidArgument")
                ELSE TryParsed(Parsed_from_value(expression),
                               LAMBDA parsed_expression :
                                   filter_fold(parsed_expression,
                                               items_of(evaluated_items).v, 1, <<>>)))

(* the data of a step of reduce, had the two values changed places *)
reduce_data_swapped(cur, accumulator) ==
    Object((<<"c", "u", "r", "r", "e", "n", "t">> :> accumulator) @@
           (<<"a", "c", "c", "u", "m", "u", "l", "a", "t", "o", "r">> :> cur))

reduce_data(cur, accumulator) ==
    Object((<<"c", "u", "r", "r", "e", "n", "t">> :> cur) @@
           (<<"a", "c", "c", "u", "m", "u", "l", "a", "t", "o", "r">> :> accumulator))

RECURSIVE reduce_fold(_, _, _, _)
reduce_fold(parsed_expression, values, i, accumulator) ==
    IF i > Len(values) THEN Ok(accumulator)
    ELSE Try(Parsed_evaluate(parsed_expression, reduce_data(values[i], accumulator)),
             LAMBDA e : reduce_fold(parsed_expression, values, i + 1, e))

reduce(dt, args) ==
    LET items == args[1]
        expression == args[2]
        initializer == args[3]
    IN  Try(parse_and_evaluate(items, dt),
            LAMBDA evaluated_items :
                Try(parse_and_evaluate(initializer, dt),
                    LAMBDA evaluated_initializer :
                        IF ~items_of(evaluated_items).some THEN Err("InvalidArgument")
                        ELSE TryParsed(Parsed_from_value(expression),
                                       LAMBDA parsed_expression :
                                           reduce_fold(parsed_expression,
                                                       items_of(evaluated_items).v, 1,
                                                       evaluated_initializer))))

(* the first argument of all and some: evaluated only if it is an object *)
potentially_evaled_first_arg(first_arg, dt) ==
    IF first_arg.t = "obj" THEN parse_and_evaluate(first_arg, dt) ELSE Ok(first_arg)

chars_to_values(string) == [j \in 1..Len(string) |-> String(<<string[j]>>)]

(* the items of all and some, had a string been refused as a source *)
items_or_chars_no_string(val) ==
    CASE val.t = "arr" -> Some(val.a)
      [] val.t = "null" -> Some(<<>>)
      [] OTHER -> None

(* the items of all and some: an array, the chars of a string, or null *)
items_or_chars(val) ==
    CASE val.t = "arr" -> Some(val.a)
      [] val.t = "str" -> Some(chars_to_values(val.s))
      [] val.t = "null" -> Some(<<>>)
      [] OTHER -> None

(* the fold of all, had it gone on evaluating after a falsey predicate *)
RECURSIVE all_fold_eager(_, _, _, _, _)
all_fold_eager(dt, predicate, items, i, res) ==
    IF i > Len(items) THEN Ok(Bool(res))
    ELSE Try(parse_and_evaluate(items[i], dt),
             LAMBDA evaluated_item :
                 Try(Parsed_evaluate(predicate, evaluated_item),
                     LAMBDA p : all_fold_eager(dt, predicate, items, i + 1,
                                               res /\ truthy(p))))

RECURSIVE all_fold(_, _, _, _, _)
all_fold(dt, predicate, items, i, res) ==
    IF i > Len(items) THEN Ok(Bool(res))
    ELSE IF ~res THEN all_fold(dt, predicate, items, i + 1, FALSE)
    ELSE Try(parse_and_evaluate(items[i], dt),
             LAMBDA evaluated_item :
                 Try(Parsed_evaluate(predicate, evaluated_item),
                     LAMBDA p : all_fold(dt, predicate, items, i + 1, truthy(p))))

all(dt, args) ==
    LET first_arg == args[1]
        second_arg == args[2]
    IN  Try(potentially_evaled_first_arg(first_arg, dt),
            LAMBDA val :
                IF ~items_or_chars(val).some THEN Err("InvalidArgument")
                ELSE IF Len(items_or_chars(val).v) = 0 THEN Ok(Bool(FALSE))
                ELSE TryParsed(Parsed_from_value(second_arg),
                               LAMBDA predicate :
                                   all_fold(dt, predicate, items_or_chars(val).v, 1, TRUE)))

RECURSIVE some_fold(_, _, _, _, _)
some_fold(dt, predicate, items, i, res) ==
    IF i > Len(items) THEN Ok(Bool(res))
    ELSE IF res THEN some_fold(dt, predicate, items, i + 1, TRUE)
    ELSE Try(parse_and_evaluate(items[i], dt),
             LAMBDA evaluated_item :
                 Try(Parsed_evaluate(predicate, evaluated_item),
                     LAMBDA p : some_fold(dt, predicate, items, i + 1, truthy(p))))

some(dt, args) ==
    LET first_arg == args[1]
        second_arg == args[2]
    IN  Try(potentially_evaled_first_arg(first_arg, dt),
            LAMBDA val :
                IF ~items_or_chars(val).some THEN Err("InvalidArgument")
                ELSE IF Len(items_or_chars(val).v) = 0 THEN Ok(Bool(FALSE))
                ELSE TryParsed(Parsed_from_value(second_arg),
                               LAMBDA predicate :
                                   some_fold(dt, predicate, items_or_chars(val).v, 1, FALSE)))

none(dt, args) ==
    Try(some(dt, args),
        LAMBDA had_some : IF had_some.t = "bool" THEN Ok(Bool(~had_some.b))
                          ELSE Err("UnexpectedError"))

LazyOperator_execute(op, dt, args) ==
    CASE op = <<"i", "f">> -> if_(dt, args)
      [] op = <<"?", ":">> -> if_(dt, args)
      [] op = <<"o", "r">> -> or(dt, args)
      [] op = <<"a", "n", "d">> -> and(dt, args)
      [] op = <<"m", "a", "p">> -> map(dt, args)
      [] op = <<"f", "i", "l", "t", "e", "r">> -> filter(dt, args)
      [] op = <<"r", "e", "d", "u", "c", "e">> -> reduce(dt, args)
      [] op = <<"a", "l", "l">> -> all(dt, args)
      [] op = <<"s", "o", "m", "e">> -> some(dt, args)
      [] op = <<"n", "o", "n", "e">> -> none(dt, args)

(* lib.rs: apply *)
apply(value, dt) ==
    TryParsed(Parsed_from_value(value), LAMBDA parsed : Parsed_evaluate(parsed, dt))

---------------------------------------------------------------------------
(* Rules and data the engine is called with *)
Str_a == <<"a">>
Str_b == <<"b">>
Str_d == <<"d">>
Str_i == <<"i">>
Str_n == <<"n">>
Str_x == <<"x">>

Op(sym, args) == Object(sym :> Array(args))
Op1(sym, arg) == Object(sym :> arg)
Var(k) == Op1(<<"v", "a", "r">>, String(k))
Log(x) == Op1(<<"l", "o", "g">>, x)

(* sequences over S of length lo..hi *)
SeqsOf(S, lo, hi) == UNION {[1..n -> S] : n \in lo..hi}

(* a wrong argument count, found at parse time *)
BadArity == Op(<<"=", "=">>, <<>>)
(* a failure at evaluation time: a boolean is no variable key *)
BadEval == Op1(<<"v", "a", "r">>, Bool(TRUE))

Symbols == DOMAIN OPERATOR_MAP \cup DOMAIN LAZY_OPERATOR_MAP \cup DOMAIN DATA_OPERATOR_MAP

(* the eager operators whose functions are part of this model *)
ModelledOperators ==
    {<<"=", "=">>, <<"!", "=">>, <<"=", "=", "=">>, <<"!", "=", "=">>, <<"!">>, <<"!", "!">>,
     <<"<">>, <<"<", "=">>, <<">">>, <<">", "=">>, <<"+">>, <<"-">>, <<"*">>,
     <<"/">>, <<"%">>, <<"m", "a", "x">>, <<"m", "i", "n">>,
     <<"m", "e", "r", "g", "e">>, <<"i", "n">>, <<"c", "a", "t">>,
     <<"s", "u", "b", "s", "t", "r">>, <<"l", "o", "g">>}

MaxArgs == 2
MaxIfArgs == 5
MaxRawLen == 2
MaxArity == 4
MaxKeys == 3
MaxItems == 3

(* or, and, if, ?: *)
LazyExprs ==
    {Bool(TRUE), Bool(FALSE), Number(0), Number(12), String(<<>>), Array(<<>>),
     Var(Str_a), Log(String(Str_b)), BadArity, BadEval}

IfExprs == {Bool(FALSE), Var(Str_a), Log(Number(1)), BadArity}

LazyData ==
    {Null,
     Object(Str_a :> Number(1)),
     Object(Str_a :> Array(<<>>)),
     Object(Str_a :> Object(<<>>))}

LazyRules ==
    {Op(sym, args) : sym \in {<<"o", "r">>, <<"a", "n", "d">>},
                     args \in SeqsOf(LazyExprs, 1, MaxArgs)}
    \cup {Op(sym, args) : sym \in {<<"i", "f">>, <<"?", ":">>},
                          args \in SeqsOf(IfExprs, 0, MaxIfArgs)}

(* values that are no operation *)
RawElems == {Number(1), Var(Str_a), BadArity, Object(<<>>)}

RawValues ==
    {Null, Bool(TRUE), Number(0), Number(7), String(<<>>), String(Str_a), Object(<<>>)}
    \cup {Array(s) : s \in SeqsOf(RawElems, 0, MaxRawLen)}
    \cup {Object((sym :> v) @@ (Str_b :> Number(1))) :
              sym \in {<<"v", "a", "r">>, <<"=", "=">>, <<"i", "f">>},
              v \in {String(Str_a), Array(<<>>)}}
    \cup {Object((<<"v", "a", "r">> :> String(Str_a)) @@ (<<"o", "r">> :> Array(<<>>)))}
    \cup {Object(k :> v) : k \in {Str_a, <<"v", "a">>, <<"V", "A", "R">>, <<>>},
                           v \in {Number(1), Var(Str_a), BadArity}}

RawData == {Null, Number(3), Object(Str_a :> Number(1)), Array(<<Number(1)>>)}

(* every operator with argument lists of every length; an operator whose
   function is not part of the model only with the lengths its table entry
   refuses *)
ArityArgs == {Number(1), String(Str_a)}

ArityRules ==
    {Op(sym, args) : sym \in Symbols, args \in SeqsOf(ArityArgs, 0, MaxArity)}

ArityData == {Null, Object(Str_a :> Number(1))}

Executable(r) ==
    \A sym \in DOMAIN r.m :
        \/ sym \notin DOMAIN OPERATOR_MAP
        \/ sym \in ModelledOperators
        \/ ~check_len(OPERATOR_MAP[sym], Len(r.m[sym].a))

(* var, missing, missing_some *)
DataValues ==
    {Null,
     Object(<<>>),
     Object((Str_a :> Number(1)) @@ (Str_n :> Null)),
     Object((Str_a :> Number(1)) @@ (Str_d :> Var(Str_a))),
     Object(Str_d :> BadArity),
     Object((Str_a :> Number(1)) @@ (Str_d :> BadArity)),
     Array(<<Number(5), Null>>)}

VarKeys ==
    {Null, String(<<>>), String(Str_a), String(Str_b), String(Str_n),
     Number(0), Number(2), Bool(TRUE)}

VarDefaults == {Number(7), Null, Var(Str_d), Var(Str_a), Log(Number(1)), BadEval}

VarRules ==
    {Op(<<"v", "a", "r">>, <<>>)}
    \cup {Op1(<<"v", "a", "r">>, k) : k \in VarKeys}
    \cup {Op(<<"v", "a", "r">>, <<k>>) : k \in VarKeys}
    \cup {Op(<<"v", "a", "r">>, <<k, d>>) : k \in VarKeys, d \in VarDefaults}

KeyVals == {String(Str_a), String(Str_b), String(Str_n), Null, Number(0)}

KeyLists == SeqsOf(KeyVals, 0, MaxKeys)

MissingRules ==
    {Op(<<"m", "i", "s", "s", "i", "n", "g">>, ks) : ks \in KeyLists}
    \cup {Op(<<"m", "i", "s", "s", "i", "n", "g">>, <<Array(ks)>>) : ks \in KeyLists}
    \cup {Op(<<"m", "i", "s", "s", "i", "n", "g">>, <<Array(ks), k>>) :
              ks \in KeyLists, k \in KeyVals}

MissingSomeRules ==
    {Op(<<"m", "i", "s", "s", "i", "n", "g", "_", "s", "o", "m", "e">>,
        <<Number(threshold), Array(ks)>>) : threshold \in 0..MaxKeys, ks \in KeyLists}

(* reduce *)
KeyCurrent == <<"c", "u", "r", "r", "e", "n", "t">>
KeyAccumulator == <<"a", "c", "c", "u", "m", "u", "l", "a", "t", "o", "r">>

ReduceElems == {Number(1), Number(2), String(Str_a)}

ReduceSources ==
    {Array(l) : l \in SeqsOf(ReduceElems, 0, MaxItems)}
    \cup {Null, Number(3), String(Str_a), Var(Str_x), Var(Str_i), BadEval}

ReduceExprs ==
    {Op(<<"+">>, <<Var(KeyCurrent), Var(KeyAccumulator)>>),
     Op(<<"c", "a", "t">>, <<Var(KeyAccumulator), Var(KeyCurrent)>>),
     Var(KeyCurrent), Var(KeyAccumulator), Number(5), BadArity}

ReduceInits == {Number(0), String(<<>>), Var(Str_i), BadEval}

ReduceData ==
    {Null, Object((Str_x :> Array(<<Number(4), Number(5)>>)) @@ (Str_i :> Number(10)))}

ReduceRules ==
    {Op(<<"r", "e", "d", "u", "c", "e">>, <<s, e, i>>) :
         s \in ReduceSources, e \in ReduceExprs, i \in ReduceInits}

(* map, filter *)
Str_s == <<"s">>
Str_e == <<"e">>
Element == Var(<<>>)

MapElems == {Number(0), Number(1), String(Str_a)}

MapSources ==
    {Array(l) : l \in SeqsOf(MapElems, 0, MaxItems)}
    \cup {Null, Number(3), Bool(TRUE), String(Str_a), Object(<<>>),
          Var(Str_x), Var(Str_n), Var(Str_i), BadEval}

MapExprs ==
    {Element, Op(<<"+">>, <<Element, Number(1)>>), Op1(<<"!">>, Element), Number(5),
     Log(Element), BadArity}

MapData ==
    {Null,
     Object((Str_x :> Array(<<Number(4), Number(0)>>)) @@ (Str_i :> Number(10))
            @@ (Str_n :> Null))}

MapRules ==
    {Op(sym, <<s, e>>) : sym \in {<<"m", "a", "p">>, <<"f", "i", "l", "t", "e", "r">>},
                         s \in MapSources, e \in MapExprs}

(* all, some, none *)
QuantElems == {Number(0), Number(1), Var(Str_a), Log(Number(1)), BadArity, BadEval}

QuantSources ==
    {Array(l) : l \in SeqsOf(QuantElems, 0, MaxItems)}
    \cup {Null, String(<<>>), String(<<"a", "b">>), Array(<<String(Str_a), String(Str_b)>>),
          Number(3), Bool(FALSE), Object(<<>>), Object(Str_a :> Number(1)),
          Var(Str_x), Var(Str_s), Var(Str_e), Var(Str_n), Var(Str_a), BadEval}

QuantPreds ==
    {Element, Op1(<<"!">>, Element), Op(<<"=", "=", "=">>, <<Element, String(Str_a)>>),
     BadArity}

QuantData ==
    {Null,
     Object((Str_a :> Number(1)) @@ (Str_b :> Number(0)) @@ (Str_n :> Null)
            @@ (Str_x :> Array(<<Var(Str_b), Number(1)>>))
            @@ (Str_s :> String(<<"a", "b">>)) @@ (Str_e :> Array(<<>>)))}

QuantRules ==
    {Op(sym, <<s, p>>) : sym \in {<<"a", "l", "l">>, <<"s", "o", "m", "e">>,
                                  <<"n", "o", "n", "e">>},
                         s \in QuantSources, p \in QuantPreds}

(* !, !! *)
MaxNumber == 2

TruthyValues ==
    {Null, Bool(FALSE), Bool(TRUE), String(<<>>), String(Str_a), String(<<"0">>),
     Array(<<>>), Array(<<Number(0)>>), Array(<<Array(<<>>)>>),
     Object(<<>>), Object(Str_a :> Number(0))}
    \cup {Number(n) : n \in (-1)..MaxNumber}

TruthyRules ==
    {Op(sym, <<v>>) : sym \in {<<"!">>, <<"!", "!">>}, v \in TruthyValues}
    \cup {Op(<<"!">>, <<Op(<<"!">>, <<v>>)>>) : v \in TruthyValues}

TruthyData == {Object(<<>>), Null}

(* an operator given one argument, bare and in an array *)
SugarArgs ==
    {Null, Bool(TRUE), Number(0), Number(2), String(Str_a), String(<<"3">>),
     Object(<<>>), Var(Str_a), Op(<<"!">>, <<Number(0)>>), Log(Number(1)), BadArity, BadEval}

SugarRules ==
    {Op1(sym, x) : sym \in Symbols, x \in SugarArgs}
    \cup {Op(sym, <<x>>) : sym \in Symbols, x \in SugarArgs}

SugarData == {Null, Object(Str_a :> Number(1))}

(* <, <=, >, >= *)
Comparisons == {<<"<">>, <<"<", "=">>, <<">">>, <<">", "=">>}

CompareValues ==
    {Null, Bool(FALSE), Bool(TRUE), String(<<>>), String(<<"1">>), String(Str_a),
     Array(<<>>), Object(<<>>)}
    \cup {Number(n) : n \in (-1)..MaxNumber}

CompareRules ==
    {Op(cmp, args) : cmp \in Comparisons, args \in SeqsOf(CompareValues, 2, 3)}
    \cup {Op(<<"a", "n", "d">>, <<Op(cmp, <<args[1], args[2]>>), Op(cmp, <<args[2], args[3]>>)>>) :
              cmp \in Comparisons, args \in SeqsOf(CompareValues, 3, 3)}

(* ===, !== *)
Str_o == <<"o">>

StrictExprs ==
    {Null, Bool(FALSE), Number(0), Number(1), String(<<>>), String(<<"1">>),
     Array(<<>>), Array(<<Number(1)>>), Object(<<>>),
     Var(Str_a), Var(Str_b), Var(Str_x), Var(Str_o)}

StrictRules ==
    {Op(sym, <<a, b>>) : sym \in {<<"=", "=", "=">>, <<"!", "=", "=">>},
                         a \in StrictExprs, b \in StrictExprs}

StrictData ==
    {Null,
     Object((Str_a :> Number(1)) @@ (Str_b :> String(<<"1">>))
            @@ (Str_x :> Array(<<Number(1)>>)) @@ (Str_o :> Object(<<>>)))}

(* in *)
Str_h == <<"h">>

InElems ==
    {Null, Bool(TRUE), Number(1), String(<<"1">>), String(<<"a", "b">>),
     Array(<<Number(1)>>), Object(Str_a :> Number(1)), Object(Str_a :> String(<<"1">>))}

InNeedles ==
    InElems \cup {Number(0), String(<<>>), String(Str_b), String(<<"b", "a">>),
                  Array(<<>>), Object(<<>>)}

InHaystacks ==
    {Null, Bool(TRUE), Number(1), Object(<<>>), Object(Str_a :> Number(1)),
     String(<<>>), String(<<"1">>), String(<<"a", "b">>), String(<<"a", "a", "b">>)}
    \cup {Array(s) : s \in SeqsOf(InElems, 0, MaxRawLen)}

InRule == Op(<<"i", "n">>, <<Var(Str_n), Var(Str_h)>>)

InData == {Object((Str_n :> n) @@ (Str_h :> h)) : n \in InNeedles, h \in InHaystacks}

(* substr *)
MaxIndex == 4
SymSubstr == <<"s", "u", "b", "s", "t", "r">>

AsciiStrings == {<<>>, <<"a", "b", "c">>}
MultiByteStrings == {<<"e acute", "a">>, <<"a", "euro sign", "b">>}

SubstrStrings ==
    {String(s) : s \in AsciiStrings \cup MultiByteStrings} \cup {Null, Number(1)}

SubstrIndices ==
    {Number(i) : i \in (-MaxIndex)..MaxIndex} \cup {Number(I64_MIN)}
    \cup {Null, String(<<"1">>)}

SubstrRules ==
    {Op(SymSubstr, <<s, i>>) : s \in SubstrStrings, i \in SubstrIndices}
    \cup {Op(SymSubstr, <<s, i, l>>) :
              s \in SubstrStrings, i \in SubstrIndices, l \in SubstrIndices}

(* var with an index: as a numeric key, as a key that is one segment, and
   as the last segment of a dotted path *)
IndexChars == <<"p", "q", "r">>
IndexSeqs == {SubSeq(IndexChars, 1, n) : n \in 0..Len(IndexChars)}
Indices == ((-MaxIndex)..MaxIndex) \cup {I64_MIN}
IndexDefault == Number(7)

AsArray(chars) == Array([j \in 1..Len(chars) |-> String(<<chars[j]>>)])
IndexKey(form, i) ==
    CASE form = "number" -> Number(i)
      [] form = "segment" -> String(int_to_string(i))
      [] form = "path" -> String(Str_a \o <<".">> \o int_to_string(i))
IndexForms == {"number", "segment", "path"}
IndexIn(form, value) == IF form = "path" THEN Object(Str_a :> value) ELSE value

IndexRules ==
    {Op(<<"v", "a", "r">>, <<IndexKey(form, i)>>) : form \in IndexForms, i \in Indices}
    \cup {Op(<<"v", "a", "r">>, <<IndexKey(form, i), IndexDefault>>) : form \in IndexForms, i \in Indices}

IndexData ==
    {IndexIn(form, AsArray(chars)) : form \in IndexForms, chars \in IndexSeqs}
    \cup {IndexIn(form, String(chars)) : form \in IndexForms, chars \in IndexSeqs}

(* arithmetic on integers; a divisor may be a literal or a lookup *)
Str_z == <<"z">>
Arithmetic == {<<"+">>, <<"-">>, <<"*">>, <<"/">>, <<"%">>, <<"m", "a", "x">>, <<"m", "i", "n">>}
ArithOperands == {Number(n) : n \in (-MaxNumber)..MaxNumber} \cup {Var(Str_z)}
ArithRules == {Op(sym, <<a, b>>) : sym \in Arithmetic, a \in ArithOperands, b \in ArithOperands}
ArithData == {Object(Str_z :> Number(n)) : n \in {0, 1}}

(* var with a string key: paths of one to MaxPath segments *)
MaxPath == 2
Segments == {Str_a, Str_b, Str_x, <<"0">>, <<"5">>, <<"-", "1">>, int_to_string(I64_MIN)}

RECURSIVE JoinPath(_)
JoinPath(segs) ==
    IF Len(segs) = 1 THEN segs[1] ELSE segs[1] \o <<".">> \o JoinPath(Tail(segs))

PathKeys == {JoinPath(segs) : segs \in SeqsOf(Segments, 1, MaxPath)}

PathRules ==
    {Op(<<"v", "a", "r">>, <<String(k)>>) : k \in PathKeys}
    \cup {Op(<<"v", "a", "r">>, <<String(k), IndexDefault>>) : k \in PathKeys}

PathData ==
    {Null, Bool(TRUE), Number(3), String(<<"p", "q">>),
     Array(<<Object(Str_a :> Number(1)), Array(<<Number(2)>>)>>),
     Object(Str_a :> Number(1)),
     Object((Str_a :> Null) @@ (Str_x :> Bool(FALSE))),
     Object((Str_a :> Array(<<Number(1), Object(Str_b :> Number(2))>>))
            @@ (Str_b :> String(<<"p", "q">>))),
     Object((Str_a :> Object(Str_b :> Array(<<Number(4)>>))) @@ (<<"0">> :> Number(9)))}

(* the scope of an iteration: the outer data has o, b and the source x;
   an element may have an o or an e of its own *)
Iterations ==
    {<<"m", "a", "p">>, <<"f", "i", "l", "t", "e", "r">>, <<"a", "l", "l">>,
     <<"s", "o", "m", "e">>, <<"n", "o", "n", "e">>}
ScopeKeys == {Str_o, Str_e, <<>>}
ReduceKeys == {KeyCurrent, KeyAccumulator, Str_o}

IterationRules ==
    {Op(sym, <<Var(Str_x), Var(k)>>) : sym \in Iterations, k \in ScopeKeys}
    \cup {Op(<<"r", "e", "d", "u", "c", "e">>, <<Var(Str_x), Var(k), Var(Str_o)>>) :
              k \in ReduceKeys}

ScopeRules ==
    IterationRules
    \cup {Op(<<"m", "e", "r", "g", "e">>, <<r, Var(Str_o)>>) : r \in IterationRules}

ScopeElems ==
    {Number(1), Object(Str_o :> Number(0)), Object(Str_e :> Number(2)), Var(Str_b)}

ScopeData ==
    {Object((Str_o :> Number(5)) @@ (Str_b :> Object(Str_o :> Number(1)))
            @@ (Str_x :> Array(elems))) : elems \in SeqsOf(ScopeElems, 1, MaxRawLen)}

(* eager operations over arguments that print, fail when evaluated, or do
   not parse; the same arguments behind a lazy operator *)
BadUnary == Op1(<<"=", "=">>, Number(1))
EagerSymbols ==
    {<<"c", "a", "t">>, <<"m", "e", "r", "g", "e">>, <<"=", "=">>,
     <<"v", "a", "r">>, <<"m", "i", "s", "s", "i", "n", "g">>}
Unparsable == {BadArity, BadUnary}
GuardedArgs ==
    {Op(<<"o", "r">>, <<t, BadArity>>) : t \in {Bool(TRUE), Log(Number(0))}}
EagerLeaves == {Number(1), Log(String(Str_b)), BadEval} \cup Unparsable \cup GuardedArgs
NestedArgs ==
    {Op(<<"c", "a", "t">>, <<a, b>>) : a \in {Number(1), Log(String(Str_b)), BadEval},
                                      b \in EagerLeaves}
EagerArgs == EagerLeaves \cup NestedArgs
EagerRules == {Op(sym, <<a, b>>) : sym \in EagerSymbols, a \in EagerArgs, b \in EagerArgs}
GuardRules ==
    {Op(sym, <<t, e>>) : sym \in {<<"o", "r">>, <<"a", "n", "d">>},
                         t \in {Bool(TRUE), Bool(FALSE), Log(Number(0)), Var(Str_a)},
                         e \in Unparsable \cup {Op(<<"c", "a", "t">>, <<Log(String(Str_b)), BadArity>>)}}
    \cup {Op(<<"o", "r">>, <<>>), Op(<<"a", "n", "d">>, <<>>)}
EagerData == {Null, Object(Str_a :> Number(0)), Object(Str_a :> Number(1))}

(* ==, !=, <, <=, >, >= on every pair of values of mixed types *)
Relations == {<<"=", "=">>, <<"!", "=">>, <<"<">>, <<"<", "=">>, <<">">>, <<">", "=">>}
RelationValues ==
    {Null, Bool(FALSE), Bool(TRUE),
     String(<<>>), String(<<"1">>), String(<<"0", "1">>), String(<<"-", "1">>),
     String(Str_a), String(Str_b), String(<<"a", "b">>), String(<<"1", ",", "2">>),
     String(<<"t", "r", "u", "e">>), String(to_string(Object(<<>>))),
     Array(<<>>), Array(<<Null>>), Array(<<Number(1)>>), Array(<<String(Str_a)>>),
     Array(<<Number(1), Number(2)>>), Array(<<Array(<<Number(1)>>)>>),
     Object(<<>>), Object(Str_a :> Number(1))}
    \cup {Number(n) : n \in (-1)..MaxNumber}
RelationRules == {Op(sym, <<a, b>>) : sym \in Relations, a \in RelationValues, b \in RelationValues}

---------------------------------------------------------------------------
(* The state: one call of apply, its arguments and what it returned *)
Init ==
    /\ pc = "idle"
    /\ rule = Null
    /\ data = Null
    /\ result = Ok(Null)
    /\ overflow_checks \in BOOLEAN

Call(r, d) ==
    /\ pc' = "returned"
    /\ rule' = r
    /\ data' = d
    /\ result' = apply(r, d)
    /\ UNCHANGED overflow_checks

ApplyLazy ==
    /\ pc = "idle"
    /\ \E r \in LazyRules, d \in LazyData : Call(r, d)

ApplyRaw ==
    /\ pc = "idle"
    /\ \E r \in RawValues, d \in RawData : Call(r, d)

ApplyArity ==
    /\ pc = "idle"
    /\ \E r \in {x \in ArityRules : Executable(x)}, d \in ArityData : Call(r, d)

ApplyVar ==
    /\ pc = "idle"
    /\ \E r \in VarRules, d \in DataValues : Call(r, d)

ApplyMissing ==
    /\ pc = "idle"
    /\ \E r \in MissingRules, d \in DataValues : Call(r, d)

ApplyMissingSome ==
    /\ pc = "idle"
    /\ \E r \in MissingSomeRules, d \in DataValues : Call(r, d)

ApplyReduce ==
    /\ pc = "idle"
    /\ \E r \in ReduceRules, d \in ReduceData : Call(r, d)

ApplyMapFilter ==
    /\ pc = "idle"
    /\ \E r \in MapRules, d \in MapData : Call(r, d)

ApplyQuantifier ==
    /\ pc = "idle"
    /\ \E r \in QuantRules, d \in QuantData : Call(r, d)

ApplyTruthy ==
    /\ pc = "idle"
    /\ \E r \in TruthyRules, d \in TruthyData : Call(r, d)

ApplySugar ==
    /\ pc = "idle"
    /\ \E r \in SugarRules, d \in SugarData : Call(r, d)

ApplyCompare ==
    /\ pc = "idle"
    /\ \E r \in CompareRules : Call(r, Object(<<>>))

ApplyStrict ==
    /\ pc = "idle"
    /\ \E r \in StrictRules, d \in StrictData : Call(r, d)

ApplyIn ==
    /\ pc = "idle"
    /\ \E d \in InData : Call(InRule, d)

ApplySubstr ==
    /\ pc = "idle"
    /\ \E r \in SubstrRules : Call(r, Null)

ApplyIndex ==
    /\ pc = "idle"
    /\ \E r \in IndexRules, d \in IndexData : Call(r, d)

ApplyPath ==
    /\ pc = "idle"
    /\ \E r \in PathRules, d \in PathData : Call(r, d)

ApplyScope ==
    /\ pc = "idle"
    /\ \E r \in ScopeRules, d \in ScopeData : Call(r, d)

ApplyArith ==
    /\ pc = "idle"
    /\ \E r \in ArithRules, d \in ArithData : Call(r, d)

ApplyEager ==
    /\ pc = "idle"
    /\ \E r \in EagerRules \cup GuardRules, d \in EagerData : Call(r, d)

ApplyRelation ==
    /\ pc = "idle"
    /\ \E r \in RelationRules : Call(r, Null)

Next ==
    \/ ApplyLazy
    \/ ApplyRaw
    \/ ApplyArity
    \/ ApplyVar
    \/ ApplyMissing
    \/ ApplyMissingSome
    \/ ApplyReduce
    \/ ApplyMapFilter
    \/ ApplyQuantifier
    \/ ApplyTruthy
    \/ ApplySugar
    \/ ApplyCompare
    \/ ApplyStrict
    \/ ApplyIn
    \/ ApplySubstr
    \/ ApplyIndex
    \/ ApplyArith
    \/ ApplyPath
    \/ ApplyScope
    \/ ApplyEager
    \/ ApplyRelation

Spec == Init /\ [][Next]_vars
SpecLazy == Init /\ [][ApplyLazy]_vars
SpecParse == Init /\ [][ApplyRaw \/ ApplyArity]_vars
SpecData == Init /\ [][ApplyVar \/ ApplyMissing \/ ApplyMissingSome]_vars
SpecReduce == Init /\ [][ApplyReduce]_vars
SpecArray == Init /\ [][ApplyMapFilter \/ ApplyQuantifier]_vars
SpecOperators == Init /\ [][ApplyTruthy \/ ApplySugar \/ ApplyCompare \/ ApplyStrict]_vars
SpecStrings == Init /\ [][ApplyIn \/ ApplySubstr]_vars
SpecIndex == Init /\ [][ApplyIndex]_vars
SpecPath == Init /\ [][ApplyPath]_vars
SpecScope == Init /\ [][ApplyScope]_vars
SpecArith == Init /\ [][ApplyArith]_vars
SpecEager == Init /\ [][ApplyEager]_vars
SpecRelations == Init /\ [][ApplyRelation]_vars

---------------------------------------------------------------------------
(* Properties *)
Returned == pc = "returned"

IsOpRule(r, sym) == r.t = "obj" /\ DOMAIN r.m = {sym} /\ r.m[sym].t = "arr"
ArgsOf(r, sym) == r.m[sym].a
ResTruthy(r) == r.ok /\ truthy(r.v)
ResFalsey(r) == r.ok /\ ~truthy(r.v)
SameValue(r1, r2) == r1.ok = r2.ok /\ r1.v = r2.v

SymOr == <<"o", "r">>
SymAnd == <<"a", "n", "d">>
IfSyms == {<<"i", "f">>, <<"?", ":">>}
SymVar == <<"v", "a", "r">>
SymMissing == <<"m", "i", "s", "s", "i", "n", "g">>
SymMissingSome == <<"m", "i", "s", "s", "i", "n", "g", "_", "s", "o", "m", "e">>
SymReduce == <<"r", "e", "d", "u", "c", "e">>

(* C1: or with a truthy first argument, and with a falsey first argument,
   and if / ?: with three arguments return exactly what the reached argument
   returns (value and output); the argument that is not reached is neither
   parsed nor evaluated, so neither its errors nor its output appear. *)
C1_UnreachedNotEvaluated ==
    Returned =>
        /\ IsOpRule(rule, SymOr) /\ Len(ArgsOf(rule, SymOr)) >= 2
             /\ ResTruthy(apply(ArgsOf(rule, SymOr)[1], data))
           => result = apply(ArgsOf(rule, SymOr)[1], data)
        /\ IsOpRule(rule, SymAnd) /\ Len(ArgsOf(rule, SymAnd)) >= 2
             /\ ResFalsey(apply(ArgsOf(rule, SymAnd)[1], data))
           => result = apply(ArgsOf(rule, SymAnd)[1], data)
        /\ \A sym \in IfSyms :
             IsOpRule(rule, sym) /\ Len(ArgsOf(rule, sym)) = 3 =>
               /\ ResTruthy(apply(ArgsOf(rule, sym)[1], data))
                  => result = After(apply(ArgsOf(rule, sym)[1], data).out,
                                    apply(ArgsOf(rule, sym)[2], data))
               /\ ResFalsey(apply(ArgsOf(rule, sym)[1], data))
                  => result = After(apply(ArgsOf(rule, sym)[1], data).out,
                                    apply(ArgsOf(rule, sym)[3], data))

(* an or whose second argument fails on its own, and that returned a value *)
C1_Witness ==
    /\ Returned
    /\ IsOpRule(rule, SymOr) /\ Len(ArgsOf(rule, SymOr)) = 2
    /\ ~apply(ArgsOf(rule, SymOr)[2], data).ok
    /\ data # Null
    /\ ArgsOf(rule, SymOr)[1] = Var(Str_a)
    /\ result.ok

(* C2: a value that is not an object with exactly one key naming a
   registered operator is returned unchanged, whatever the data. *)
IsOperation(value) ==
    value.t = "obj" /\ Cardinality(DOMAIN value.m) = 1 /\ DOMAIN value.m \subseteq Symbols

C2_RawRoundTrip == Returned /\ ~IsOperation(rule) => result = Ok(rule)

(* an object of two keys, one of them var, came back as it was *)
C2_Witness ==
    /\ Returned
    /\ rule.t = "obj" /\ Cardinality(DOMAIN rule.m) = 2 /\ SymVar \in DOMAIN rule.m
    /\ data = Object(Str_a :> Number(1))
    /\ result = Ok(rule)

(* C3: an argument array whose length is outside the operator's arity fails
   with WrongArgumentCount; + applied to [] is 0.  The arities are those the
   claim lists.  Before any call: the calls left out of ArityRules are calls
   with a length inside the listed arity. *)
ClaimArity(sym, n) ==
    CASE sym \in {<<"=", "=">>, <<"!", "=">>, <<"=", "=", "=">>, <<"!", "=", "=">>, <<"/">>,
                  <<"%">>, <<"i", "n">>, <<"m", "a", "p">>, <<"f", "i", "l", "t", "e", "r">>,
                  <<"a", "l", "l">>, <<"s", "o", "m", "e">>, <<"n", "o", "n", "e">>,
                  SymMissingSome} -> n = 2
      [] sym = SymReduce -> n = 3
      [] sym \in {<<"!">>, <<"!", "!">>, <<"l", "o", "g">>} -> n = 1
      [] sym \in {<<"<">>, <<"<", "=">>, <<">">>, <<">", "=">>,
                  <<"s", "u", "b", "s", "t", "r">>} -> n \in {2, 3}
      [] sym = <<"-">> -> n \in {1, 2}
      [] sym = SymVar -> n \in {0, 1, 2}
      [] sym \in {<<"*">>, <<"m", "i", "n">>, <<"m", "a", "x">>, SymOr, SymAnd} -> n >= 1
      [] sym \in {<<"+">>, <<"m", "e", "r", "g", "e">>, <<"c", "a", "t">>, <<"i", "f">>,
                  <<"?", ":">>, SymMissing} -> TRUE

C3_ArityEnforced ==
    /\ ~Returned =>
         \A r \in ArityRules :
             \A sym \in DOMAIN r.m :
                 ~ClaimArity(sym, Len(ArgsOf(r, sym))) => Executable(r)
    /\ Returned =>
         \A sym \in Symbols :
             IsOpRule(rule, sym) =>
                 /\ ~ClaimArity(sym, Len(ArgsOf(rule, sym)))
                    => result = Err("WrongArgumentCount")
                 /\ sym = <<"+">> /\ ArgsOf(rule, sym) = <<>> => result = Ok(Number(0))

(* max applied to [] was refused *)
C3_Witness ==
    /\ Returned
    /\ rule = Op(<<"m", "a", "x">>, <<>>)
    /\ result = Err("WrongArgumentCount")

(* C4: if / ?: return the branch of the first truthy condition, else the
   trailing default (odd count) or null (even count); no argument gives
   null, a single argument gives its value. *)
IfCond(args, dt, i) == apply(args[2 * i - 1], dt)
IfHits(args, dt) == {i \in 1..(Len(args) \div 2) : ResTruthy(IfCond(args, dt, i))}
IfFirstHit(args, dt) == CHOOSE i \in IfHits(args, dt) : \A j \in IfHits(args, dt) : i <= j
IfCondsOk(args, dt, k) == \A j \in 1..k : IfCond(args, dt, j).ok

IfClaim(args, n, dt, res) ==
    /\ n = 0 => res = Ok(Null)
    /\ n = 1 => res = apply(args[1], dt)
    /\ n >= 2 /\ IfHits(args, dt) # {} /\ IfCondsOk(args, dt, IfFirstHit(args, dt))
       => SameValue(res, apply(args[2 * IfFirstHit(args, dt)], dt))
    /\ n >= 2 /\ IfHits(args, dt) = {} /\ IfCondsOk(args, dt, n \div 2)
       => IF n % 2 = 1 THEN SameValue(res, apply(args[n], dt))
          ELSE SameValue(res, Ok(Null))

C4_IfSelectsBranch ==
    Returned =>
      \A sym \in IfSyms :
        IsOpRule(rule, sym) =>
          IfClaim(ArgsOf(rule, sym), Len(ArgsOf(rule, sym)), data, result)

(* five arguments, both conditions evaluate, only the second is truthy *)
C4_Witness ==
    /\ Returned
    /\ \E sym \in IfSyms :
         /\ IsOpRule(rule, sym) /\ Len(ArgsOf(rule, sym)) = 5
         /\ IfCondsOk(ArgsOf(rule, sym), data, 2)
         /\ IfHits(ArgsOf(rule, sym), data) = {2}
    /\ result.ok

(* C5: or returns the first truthy evaluated argument, else the last one;
   and the first falsey one, else the last one; the value itself, not a
   Bool made from it. *)
Stops(sym, arg, dt) ==
    IF sym = SymOr THEN ResTruthy(apply(arg, dt)) ELSE ResFalsey(apply(arg, dt))
Passes(sym, arg, dt) ==
    IF sym = SymOr THEN ResFalsey(apply(arg, dt)) ELSE ResTruthy(apply(arg, dt))

OrAndClaim(sym, args, n, dt, res) ==
    /\ \A i \in 1..n :
         Stops(sym, args[i], dt) /\ (\A j \in 1..(i - 1) : Passes(sym, args[j], dt))
         => res.ok /\ res.v = apply(args[i], dt).v
    /\ (n >= 1 /\ \A j \in 1..n : Passes(sym, args[j], dt))
         => res.ok /\ res.v = apply(args[n], dt).v

C5_OrAndReturnValue ==
    Returned =>
      \A sym \in {SymOr, SymAnd} :
        IsOpRule(rule, sym) =>
          OrAndClaim(sym, ArgsOf(rule, sym), Len(ArgsOf(rule, sym)), data, result)

(* an or that went through a falsey argument and returned the number 12 *)
C5_Witness ==
    /\ Returned
    /\ IsOpRule(rule, SymOr) /\ Len(ArgsOf(rule, SymOr)) = 2
    /\ ResFalsey(apply(ArgsOf(rule, SymOr)[1], data))
    /\ result = Ok(Number(12))

(* the var lookup of a key finds a value *)
ValidKey(key) == key.t \in {"null", "str", "num"}
Found(key, dt) == get_key(dt, KeyType_try_from(key).v).some

(* C6: when the lookup of the key finds nothing, var returns what its
   default evaluates to, evaluated once against the data, and null when no
   default is given. *)
VarDefaultClaim(args, dt, res) ==
    ValidKey(args[1]) /\ ~Found(args[1], dt) =>
        /\ Len(args) = 1 => res = Ok(Null)
        /\ Len(args) = 2 /\ apply(args[2], dt).ok => res = apply(args[2], dt)

C6_DefaultReturnedAsEvaluated ==
    Returned /\ IsOpRule(rule, SymVar) /\ Len(ArgsOf(rule, SymVar)) >= 1
        => VarDefaultClaim(ArgsOf(rule, SymVar), data, result)

(* C7: var with no argument, with the empty key or with the null key
   returns the data, and with the null key it does so whatever default,
   evaluating without error, comes with it. *)
C7_NullKeyReturnsData ==
    Returned =>
        /\ rule \in {Op(SymVar, <<>>), Op1(SymVar, String(<<>>)), Op1(SymVar, Null)}
           => result = Ok(data)
        /\ IsOpRule(rule, SymVar) /\ Len(ArgsOf(rule, SymVar)) = 2
             /\ ArgsOf(rule, SymVar)[1] = Null
             /\ apply(ArgsOf(rule, SymVar)[2], data).ok
           => result.ok /\ result.v = data

(* C8: missing returns, in input order, the keys of its key list whose
   lookup finds no value (a key present with the value null is not
   reported, null keys are skipped); a first argument that is an array is
   the key list, so missing([[k1..kn]]) is missing([k1..kn]). *)
KeyList(args) == IF Len(args) > 0 /\ args[1].t = "arr" THEN args[1].a ELSE args
ValidKeys(keys) == \A i \in 1..Len(keys) : ValidKey(keys[i])
IsAbsent(key, dt) == key.t # "null" /\ ~Found(key, dt)

RECURSIVE AbsentKeys(_, _, _)
AbsentKeys(keys, i, dt) ==
    IF i > Len(keys) THEN <<>>
    ELSE (IF IsAbsent(keys[i], dt) THEN <<keys[i]>> ELSE <<>>) \o AbsentKeys(keys, i + 1, dt)

MissingClaim(args, dt, res) ==
    /\ ValidKeys(KeyList(args)) => res = Ok(Array(AbsentKeys(KeyList(args), 1, dt)))
    /\ Len(args) = 1 /\ args[1].t = "arr" => res = apply(Op(SymMissing, args[1].a), dt)

C8_MissingReportsAbsentKeys ==
    Returned /\ IsOpRule(rule, SymMissing)
        => MissingClaim(ArgsOf(rule, SymMissing), data, result)

(* a key list given as one array: a is present, n is present with the value
   null, b is reported *)
C8_Witness ==
    /\ Returned
    /\ rule = Op(SymMissing, <<Array(<<String(Str_a), String(Str_n), String(Str_b)>>)>>)
    /\ data = Object((Str_a :> Number(1)) @@ (Str_n :> Null))
    /\ result = Ok(Array(<<String(Str_b)>>))

(* C9: missing_some returns [] exactly when the number of keys of the list
   that are present in the data is at least the threshold, and otherwise
   the missing keys in input order without duplicates; also for a list that
   names a key more than once. *)
PresentCount(keys, dt) == Cardinality({i \in 1..Len(keys) : Found(keys[i], dt)})

RECURSIVE Deduplicated(_, _, _)
Deduplicated(keys, i, acc) ==
    IF i > Len(keys) THEN acc
    ELSE Deduplicated(keys, i + 1,
                      IF \E j \in 1..Len(acc) : acc[j] = keys[i] THEN acc
                      ELSE Append(acc, keys[i]))

MissingSomeClaim(threshold, keys, dt, res) ==
    (\A i \in 1..Len(keys) : keys[i].t \in {"str", "num"}) =>
        res = IF PresentCount(keys, dt) >= threshold THEN Ok(Array(<<>>))
              ELSE Ok(Array(Deduplicated(AbsentKeys(keys, 1, dt), 1, <<>>)))

C9_MissingSomeCountsPresentKeys ==
    Returned /\ IsOpRule(rule, SymMissingSome)
        => MissingSomeClaim(ArgsOf(rule, SymMissingSome)[1].n,
                            ArgsOf(rule, SymMissingSome)[2].a, data, result)

(* C10: reduce evaluates source and init against the data and folds from
   the left: acc starts as the value of init and, for each element e in
   order, becomes the value of expr on {"current": e, "accumulator": acc};
   a null source is the empty array, any other source that is no array is
   an error.  (For an expr that parses: one that does not is a malformed
   rule.) *)
CurrentAccumulator(e, acc) == Object((KeyCurrent :> e) @@ (KeyAccumulator :> acc))

RECURSIVE FoldLeft(_, _, _, _)
FoldLeft(expr, values, k, acc) ==
    IF k > Len(values) THEN Ok(acc)
    ELSE Try(apply(expr, CurrentAccumulator(values[k], acc)),
             LAMBDA next : FoldLeft(expr, values, k + 1, next))

ReduceClaim(source, expr, init, res) ==
    source.ok /\ init.ok /\ Parsed_from_value(expr).ok =>
        /\ source.v.t = "arr" => SameValue(res, FoldLeft(expr, source.v.a, 1, init.v))
        /\ source.v.t = "null" => SameValue(res, init)
        /\ source.v.t \notin {"arr", "null"} => ~res.ok

C10_ReduceIsLeftFold ==
    Returned /\ IsOpRule(rule, SymReduce) /\ Len(ArgsOf(rule, SymReduce)) = 3
        => ReduceClaim(apply(ArgsOf(rule, SymReduce)[1], data), ArgsOf(rule, SymReduce)[2],
                       apply(ArgsOf(rule, SymReduce)[3], data), result)

(* three elements joined in their order, starting from the empty string *)
C10_Witness ==
    /\ Returned
    /\ rule = Op(SymReduce, <<Array(<<Number(1), Number(2), String(Str_a)>>),
                              Op(<<"c", "a", "t">>, <<Var(KeyAccumulator), Var(KeyCurrent)>>),
                              String(<<>>)>>)
    /\ result = Ok(String(<<"1", "2", "a">>))

SymMap == <<"m", "a", "p">>
SymFilter == <<"f", "i", "l", "t", "e", "r">>
SymAll == <<"a", "l", "l">>
SymSome == <<"s", "o", "m", "e">>
SymNone == <<"n", "o", "n", "e">>
Quantifiers == {SymAll, SymSome, SymNone}

(* C11: for a source that evaluates to an array S, map returns the array of
   expr evaluated on each S[i] as data, and filter the elements of S, in
   their order, on which pred is truthy; a null source gives [], a source
   that evaluates to a number, a bool, a string or an object is an
   InvalidArgument error.  (For an expr that parses: one that does not is a
   malformed rule.) *)
MapFilterClaim(sym, source, expr, res) ==
    /\ source.ok /\ source.v.t \in {"num", "bool", "str", "obj"}
       => res = Err("InvalidArgument")
    /\ source.ok /\ source.v.t = "null" /\ Parsed_from_value(expr).ok
       => res = Ok(Array(<<>>))
    /\ source.ok /\ source.v.t = "arr" /\ Parsed_from_value(expr).ok
         /\ (\A i \in 1..Len(source.v.a) : apply(expr, source.v.a[i]).ok)
       => IF sym = SymMap
          THEN /\ res.ok /\ res.v.t = "arr" /\ Len(res.v.a) = Len(source.v.a)
               /\ \A i \in 1..Len(source.v.a) : res.v.a[i] = apply(expr, source.v.a[i]).v
          ELSE /\ res.ok
               /\ res.v = Array(SelectSeq(source.v.a, LAMBDA e : truthy(apply(expr, e).v)))

C11_MapAndFilter ==
    Returned =>
      \A sym \in {SymMap, SymFilter} :
        IsOpRule(rule, sym) /\ Len(ArgsOf(rule, sym)) = 2 =>
          MapFilterClaim(sym, apply(ArgsOf(rule, sym)[1], data), ArgsOf(rule, sym)[2], result)

(* a filter kept two of three elements, in their order *)
C11_Witness ==
    /\ Returned
    /\ rule = Op(SymFilter, <<Array(<<Number(1), Number(0), String(Str_a)>>), Element>>)
    /\ result = Ok(Array(<<Number(1), String(Str_a)>>))

(* C12: on a literal source array, all, some and none take the elements in
   order: an element is evaluated as a rule against the outer data when it
   is reached, then the predicate is applied to its value; all stops at the
   first falsey predicate, some and none at the first truthy one.  What
   lies after the stop is neither parsed nor evaluated (no error, no
   output); an error before the stop is the result of the call. *)
ElemValue(items, dt, i) == apply(items[i], dt)
ElemPred(items, pred, dt, i) == apply(pred, ElemValue(items, dt, i).v)
ElemFails(items, pred, dt, i) ==
    ~ElemValue(items, dt, i).ok \/ ~ElemPred(items, pred, dt, i).ok
ElemStops(sym, items, pred, dt, i) ==
    /\ ~ElemFails(items, pred, dt, i)
    /\ truthy(ElemPred(items, pred, dt, i).v) = (sym # SymAll)
(* the index the fold ends at: the first element that stops it or fails, and
   one past the last element if there is none *)
EndIndex(sym, items, pred, dt) ==
    CHOOSE k \in 1..(Len(items) + 1) :
        /\ k <= Len(items) => ElemStops(sym, items, pred, dt, k) \/ ElemFails(items, pred, dt, k)
        /\ \A j \in 1..(k - 1) :
               ~ElemStops(sym, items, pred, dt, j) /\ ~ElemFails(items, pred, dt, j)

RECURSIVE OutputTo(_, _, _, _, _)
OutputTo(items, pred, dt, i, k) ==
    IF i > k \/ i > Len(items) THEN <<>>
    ELSE ElemValue(items, dt, i).out
         \o (IF ElemValue(items, dt, i).ok THEN ElemPred(items, pred, dt, i).out ELSE <<>>)
         \o OutputTo(items, pred, dt, i + 1, k)

QuantClaim(sym, items, pred, dt, k, res) ==
    /\ res.out = OutputTo(items, pred, dt, 1, k)
    /\ k <= Len(items) /\ ElemStops(sym, items, pred, dt, k)
       => res.ok /\ res.v = Bool(sym = SymSome)
    /\ k <= Len(items) /\ ElemFails(items, pred, dt, k)
       => /\ ~res.ok
          /\ res.v = IF ~ElemValue(items, dt, k).ok THEN ElemValue(items, dt, k).v
                     ELSE ElemPred(items, pred, dt, k).v
    /\ k > Len(items) => res.ok /\ res.v = Bool(sym # SymSome)

C12_QuantifiersShortCircuit ==
    Returned =>
      \A sym \in Quantifiers :
        IsOpRule(rule, sym) /\ Len(ArgsOf(rule, sym)) = 2
          /\ ArgsOf(rule, sym)[1].t = "arr" /\ Len(ArgsOf(rule, sym)[1].a) > 0
          /\ Parsed_from_value(ArgsOf(rule, sym)[2]).ok
        => QuantClaim(sym, ArgsOf(rule, sym)[1].a, ArgsOf(rule, sym)[2], data,
                      EndIndex(sym, ArgsOf(rule, sym)[1].a, ArgsOf(rule, sym)[2], data),
                      result)

(* all stopped at its first element; the malformed rule after it and the
   log after that were never looked at *)
C12_Witness ==
    /\ Returned
    /\ rule = Op(SymAll, <<Array(<<Number(0), BadArity, Log(Number(1))>>), Element>>)
    /\ result = Ok(Bool(FALSE))

(* C13: for a source that evaluates to [], "" or null, all and some return
   false and none returns true whatever the predicate, malformed ones
   included; a non-empty string source is the sequence of its characters;
   a source that evaluates to a number, a bool or an object fails with
   InvalidArgument; none returns the negation of some, or the same error. *)
SourceValue(source, dt) == IF source.t = "obj" THEN apply(source, dt) ELSE Ok(source)
IsEmptySource(val) ==
    val.t = "null" \/ (val.t = "str" /\ val.s = <<>>) \/ (val.t = "arr" /\ val.a = <<>>)

QuantSourceClaim(sym, source, pred, dt, res) ==
    /\ SourceValue(source, dt).ok /\ IsEmptySource(SourceValue(source, dt).v)
       => res = Ok(Bool(sym = SymNone))
    /\ SourceValue(source, dt).ok /\ SourceValue(source, dt).v.t = "str"
         /\ SourceValue(source, dt).v.s # <<>>
       => res = apply(Op(sym, <<Array(chars_to_values(SourceValue(source, dt).v.s)), pred>>),
                      dt)
    /\ SourceValue(source, dt).ok /\ SourceValue(source, dt).v.t \in {"num", "bool", "obj"}
       => res = Err("InvalidArgument")
    /\ sym = SymNone
       => LET had_some == apply(Op(SymSome, <<source, pred>>), dt)
          IN  IF had_some.ok THEN res = [had_some EXCEPT !.v = Bool(~had_some.v.b)]
              ELSE res = had_some

C13_QuantifierSources ==
    Returned =>
      \A sym \in Quantifiers :
        IsOpRule(rule, sym) /\ Len(ArgsOf(rule, sym)) = 2 =>
          QuantSourceClaim(sym, ArgsOf(rule, sym)[1], ArgsOf(rule, sym)[2], data, result)

(* none of an empty string found in the data, with a malformed predicate *)
C13_Witness ==
    /\ Returned
    /\ rule \in {Op(SymNone, <<String(<<>>), BadArity>>), Op(SymNone, <<Var(Str_e), BadArity>>)}
    /\ data # Null
    /\ result = Ok(Bool(TRUE))

(* C14: when the source of all, some or none is an expression that
   evaluates to an array, the predicate is evaluated on each element of
   that array as it is: an element that came from the data is data only,
   never a rule. *)
PredOn(pred, elems, i) == apply(pred, elems[i])

DataElementsClaim(sym, elems, pred, res) ==
    (\A i \in 1..Len(elems) : PredOn(pred, elems, i).ok) /\ Len(elems) > 0 =>
        /\ res.ok
        /\ sym = SymAll
           => res.v = Bool(\A i \in 1..Len(elems) : truthy(PredOn(pred, elems, i).v))
        /\ sym = SymSome
           => res.v = Bool(\E i \in 1..Len(elems) : truthy(PredOn(pred, elems, i).v))
        /\ sym = SymNone
           => res.v = Bool(~\E i \in 1..Len(elems) : truthy(PredOn(pred, elems, i).v))

C14_DataElementsAreData ==
    Returned =>
      \A sym \in Quantifiers :
        IsOpRule(rule, sym) /\ Len(ArgsOf(rule, sym)) = 2
          /\ ArgsOf(rule, sym)[1].t = "obj"
          /\ apply(ArgsOf(rule, sym)[1], data).ok
          /\ apply(ArgsOf(rule, sym)[1], data).v.t = "arr"
        => DataElementsClaim(sym, apply(ArgsOf(rule, sym)[1], data).v.a,
                             ArgsOf(rule, sym)[2], result)

SymNot == <<"!">>
SymNotNot == <<"!", "!">>

(* C15: !! of an evaluated value V is false exactly when V is null, false,
   0, "" or [], and true otherwise, objects included; ! is the opposite
   Bool, so that ! of ! of V is !! of V. *)
FalseyValues == {Null, Bool(FALSE), Number(0), String(<<>>), Array(<<>>)}

TruthyClaim(r, dt, res) ==
    /\ IsOpRule(r, SymNotNot) /\ ~IsOperation(ArgsOf(r, SymNotNot)[1])
       => res = Ok(Bool(ArgsOf(r, SymNotNot)[1] \notin FalseyValues))
    /\ IsOpRule(r, SymNot) /\ ~IsOperation(ArgsOf(r, SymNot)[1])
       => res = Ok(Bool(ArgsOf(r, SymNot)[1] \in FalseyValues))
    /\ IsOpRule(r, SymNot) /\ IsOpRule(ArgsOf(r, SymNot)[1], SymNot)
       => res = apply(Op(SymNotNot, ArgsOf(ArgsOf(r, SymNot)[1], SymNot)), dt)

C15_Truthiness ==
    Returned /\ rule \in TruthyRules => TruthyClaim(rule, data, result)

(* ! of ! of the empty object is true, ! of ! of the empty array is false *)
C15_Witness ==
    /\ Returned
    /\ \/ rule = Op(SymNot, <<Op(SymNot, <<Object(<<>>)>>)>>) /\ result = Ok(Bool(TRUE))
       \/ rule = Op(SymNot, <<Op(SymNot, <<Array(<<>>)>>)>>) /\ result = Ok(Bool(FALSE))
    /\ data = Object(<<>>)

(* C16: for an operator whose arity admits one argument and an x that is no
   array, {op: x} is {op: [x]}: the two calls return the same. *)
UnaryOperators ==
    {SymNot, SymNotNot, <<"l", "o", "g">>, <<"+">>, <<"-">>, <<"*">>, <<"m", "i", "n">>,
     <<"m", "a", "x">>, <<"m", "e", "r", "g", "e">>, <<"c", "a", "t">>, <<"i", "f">>,
     <<"?", ":">>, SymOr, SymAnd, SymVar, SymMissing}

IsBareRule(r, sym) == r.t = "obj" /\ DOMAIN r.m = {sym} /\ r.m[sym].t # "arr"

C16_BareArgumentIsUnaryList ==
    Returned =>
      \A sym \in UnaryOperators :
        IsBareRule(rule, sym) => result = apply(Op(sym, <<rule.m[sym]>>), data)

(* the negation of a bare number, and the sum of a bare string of digits *)
C16_Witness ==
    /\ Returned
    /\ \/ rule = Op1(<<"-">>, Number(2)) /\ result = Ok(Number(-2))
       \/ rule = Op1(<<"+">>, String(<<"3">>)) /\ result = Ok(Number(3))

(* C17: for an operator whose arity does not admit one argument and an x
   that is no array, {op: x} fails with InvalidOperation, not with
   WrongArgumentCount. *)
NonUnaryOperators ==
    {<<"=", "=">>, <<"!", "=">>, <<"=", "=", "=">>, <<"!", "=", "=">>, <<"<">>, <<"<", "=">>,
     <<">">>, <<">", "=">>, <<"/">>, <<"%">>, <<"i", "n">>, <<"s", "u", "b", "s", "t", "r">>,
     SymMap, SymFilter, SymReduce, SymAll, SymSome, SymNone, SymMissingSome}

C17_BareArgumentRefused ==
    Returned =>
      \A sym \in NonUnaryOperators :
        IsBareRule(rule, sym) => result = Err("InvalidOperation")

(* substr of a bare string, some of a bare malformed rule *)
C17_Witness ==
    /\ Returned
    /\ rule \in {Op1(<<"s", "u", "b", "s", "t", "r">>, String(Str_a)), Op1(SymSome, BadArity)}
    /\ result = Err("InvalidOperation")

(* C18: a comparison of three evaluated values a, b, c is cmp(a, b) and
   cmp(b, c), which is what the and of the two comparisons returns; of two
   values it is cmp(a, b). *)
CmpOf(cmp, a, b) ==
    CASE cmp = <<"<">> -> abstract_lt(a, b)
      [] cmp = <<"<", "=">> -> abstract_lte(a, b)
      [] cmp = <<">">> -> abstract_gt(a, b)
      [] cmp = <<">", "=">> -> abstract_gte(a, b)

ChainClaim(cmp, args, dt, res) ==
    /\ Len(args) = 2 => res = Ok(Bool(CmpOf(cmp, args[1], args[2])))
    /\ Len(args) = 3 =>
         /\ res = Ok(Bool(/\ apply(Op(cmp, <<args[1], args[2]>>), dt).v.b
                          /\ apply(Op(cmp, <<args[2], args[3]>>), dt).v.b))
         /\ res = apply(Op(SymAnd, <<Op(cmp, <<args[1], args[2]>>),
                                     Op(cmp, <<args[2], args[3]>>)>>), dt)

C18_ChainedComparison ==
    Returned =>
      \A cmp \in Comparisons :
        IsOpRule(rule, cmp) => ChainClaim(cmp, ArgsOf(rule, cmp), data, result)

(* 0 < 2 holds and 2 < 1 does not *)
C18_Witness ==
    /\ Returned
    /\ rule = Op(<<"<">>, <<Number(0), Number(2), Number(1)>>)
    /\ result = Ok(Bool(FALSE))

(* C19: for a and b among null, false, true and the integers, a <= b is
   true exactly when num(a) <= num(b) and a >= b exactly when
   num(a) >= num(b), with num(null) = 0, num(false) = 0, num(true) = 1. *)
IsNumeric(val) == val.t \in {"null", "bool", "num"}
Num(val) ==
    CASE val.t = "null" -> 0
      [] val.t = "bool" -> IF val.b THEN 1 ELSE 0
      [] val.t = "num" -> val.n

C19_LteGteCoerceToNumbers ==
    Returned =>
      /\ IsOpRule(rule, <<"<", "=">>) /\ Len(ArgsOf(rule, <<"<", "=">>)) = 2
           /\ IsNumeric(ArgsOf(rule, <<"<", "=">>)[1]) /\ IsNumeric(ArgsOf(rule, <<"<", "=">>)[2])
         => result = Ok(Bool(Num(ArgsOf(rule, <<"<", "=">>)[1])
                               <= Num(ArgsOf(rule, <<"<", "=">>)[2])))
      /\ IsOpRule(rule, <<">", "=">>) /\ Len(ArgsOf(rule, <<">", "=">>)) = 2
           /\ IsNumeric(ArgsOf(rule, <<">", "=">>)[1]) /\ IsNumeric(ArgsOf(rule, <<">", "=">>)[2])
         => result = Ok(Bool(Num(ArgsOf(rule, <<">", "=">>)[1])
                               >= Num(ArgsOf(rule, <<">", "=">>)[2])))

(* C20: === is true exactly when both operands evaluate to primitives of
   the same type and value, without coercion; it is false whenever an
   operand evaluates to an array or an object, identical ones and the same
   var lookup included; !== is its negation. *)
SymStrictEq == <<"=", "=", "=">>
SymStrictNe == <<"!", "=", "=">>
IsPrimitive(val) == val.t \in {"null", "bool", "num", "str"}
SamePrimitive(a, b) == IsPrimitive(a) /\ IsPrimitive(b) /\ a = b

StrictClaim(sym, a, b, args, dt, res) ==
    a.ok /\ b.ok =>
        /\ sym = SymStrictEq => res = Ok(Bool(SamePrimitive(a.v, b.v)))
        /\ sym = SymStrictNe =>
             /\ res = Ok(Bool(~SamePrimitive(a.v, b.v)))
             /\ res = Ok(Bool(~apply(Op(SymStrictEq, args), dt).v.b))

C20_StrictEquality ==
    Returned =>
      \A sym \in {SymStrictEq, SymStrictNe} :
        IsOpRule(rule, sym) /\ Len(ArgsOf(rule, sym)) = 2 =>
          StrictClaim(sym, apply(ArgsOf(rule, sym)[1], data), apply(ArgsOf(rule, sym)[2], data),
                      ArgsOf(rule, sym), data, result)

(* the same lookup of an array on both sides is not strictly equal *)
C20_Witness ==
    /\ Returned
    /\ rule = Op(SymStrictEq, <<Var(Str_x), Var(Str_x)>>)
    /\ apply(Var(Str_x), data) = Ok(Array(<<Number(1)>>))
    /\ result = Ok(Bool(FALSE))

(* C21: in([needle, haystack]) is true for an array haystack exactly when
   some element is deeply equal to the needle (same type and value, arrays
   and objects compared by their contents, nothing coerced); for a string
   haystack the needle must be a string, the result being whether it occurs
   in the haystack, and any other needle is an InvalidArgument error; a null
   haystack gives false; a number, bool or object haystack is an
   InvalidArgument error. *)
RECURSIVE DeepEqual(_, _)
DeepEqual(a, b) ==
    /\ a.t = b.t
    /\ CASE a.t = "null" -> TRUE
         [] a.t = "bool" -> a.b = b.b
         [] a.t = "num" -> a.n = b.n
         [] a.t = "str" -> a.s = b.s
         [] a.t = "arr" ->
               Len(a.a) = Len(b.a) /\ \A j \in 1..Len(a.a) : DeepEqual(a.a[j], b.a[j])
         [] a.t = "obj" ->
               DOMAIN a.m = DOMAIN b.m /\ \A k \in DOMAIN a.m : DeepEqual(a.m[k], b.m[k])

OccursIn(needle, haystack) ==
    \E i \in 1..(Len(haystack) + 1) :
        \A j \in 1..Len(needle) : i + j - 1 <= Len(haystack) /\ haystack[i + j - 1] = needle[j]

InClaim(needle, haystack, res) ==
    CASE haystack.t = "arr" ->
            res = Ok(Bool(\E j \in 1..Len(haystack.a) : DeepEqual(haystack.a[j], needle)))
      [] haystack.t = "str" /\ needle.t = "str" ->
            res = Ok(Bool(OccursIn(needle.s, haystack.s)))
      [] haystack.t = "str" /\ needle.t # "str" -> res = Err("InvalidArgument")
      [] haystack.t = "null" -> res = Ok(Bool(FALSE))
      [] OTHER -> res = Err("InvalidArgument")

C21_In ==
    Returned /\ rule = InRule => InClaim(data.m[Str_n], data.m[Str_h], result)

(* an object is found in an array by its contents, and the number 1 is not
   found where only the string "1" is *)
C21_Witness ==
    /\ Returned
    /\ rule = InRule
    /\ data.m[Str_n] = Object(Str_a :> Number(1))
    /\ data.m[Str_h] = Array(<<String(<<"1">>), Object(Str_a :> Number(1))>>)
    /\ result = Ok(Bool(TRUE))
    /\ apply(InRule, Object((Str_n :> Number(1)) @@ (Str_h :> Array(<<String(<<"1">>)>>))))
         = Ok(Bool(FALSE))

(* C22: substr(s, start[, extent]) on a string of n characters and integer
   indices returns the characters at the positions [lo, hi) of s, the empty
   string when hi <= lo, where lo is max(n + start, 0) for a negative start
   and min(start, n) otherwise, and hi is n without an extent,
   min(lo + extent, n) for a non-negative extent and max(n + extent, 0) for a
   negative one; no integer start or extent, however far out of range, makes
   it fail or panic; a non-string s or a non-integer index is an
   InvalidArgument error.  Stated for the strings of one-byte characters,
   where the position of a character is the position of its byte. *)
Least(a, b) == IF a < b THEN a ELSE b
Greatest(a, b) == IF a > b THEN a ELSE b
Lo(n, start) == IF start < 0 THEN Greatest(n + start, 0) ELSE Least(start, n)
Hi(n, lo, args) ==
    IF Len(args) = 2 THEN n
    ELSE IF args[3].n >= 0 THEN Least(lo + args[3].n, n)
    ELSE Greatest(n + args[3].n, 0)
Slice(s, lo, hi) == IF hi <= lo THEN <<>> ELSE SubSeq(s, lo + 1, hi)

IsInteger(val) == val.t = "num"
SubstrClaim(args, res) ==
    IF args[1].t = "str" /\ \A j \in 2..Len(args) : IsInteger(args[j])
    THEN args[1].s \in AsciiStrings =>
           res = Ok(String(Slice(args[1].s,
                                 Lo(Len(args[1].s), args[2].n),
                                 Hi(Len(args[1].s), Lo(Len(args[1].s), args[2].n), args))))
    ELSE res = Err("InvalidArgument")

C22_SubstrClamps ==
    Returned /\ IsOpRule(rule, SymSubstr) => SubstrClaim(ArgsOf(rule, SymSubstr), result)

(* C23: substr counts characters, not bytes, whatever the index: for every
   string s of n characters, those of more than one byte included, and every
   k in 1..n, substr(s, -k) is the last k characters of s and
   substr(s, 0, -k) the first n - k characters of s. *)
C23_SubstrCountsCharacters ==
    Returned /\ IsOpRule(rule, SymSubstr) =>
      \A s \in AsciiStrings \cup MultiByteStrings : \A k \in 1..Len(s) :
        /\ ArgsOf(rule, SymSubstr) = <<String(s), Number(-k)>>
              => result = Ok(String(SubSeq(s, Len(s) - k + 1, Len(s))))
        /\ ArgsOf(rule, SymSubstr) = <<String(s), Number(0), Number(-k)>>
              => result = Ok(String(SubSeq(s, 1, Len(s) - k)))

(* C24: var supports negative integer indices in the same way for arrays
   and for strings, as a numeric key and as a segment of a dotted path: on
   a sequence of length n, index i with 0 <= i < n selects element i, index
   -k with 1 <= k <= n selects element n - k, and every other index finds
   nothing, so that the default (null without one) is returned, not an
   error. *)
Selected(elems, i, default) ==
    IF 0 <= i /\ i < Len(elems) THEN elems[i + 1]
    ELSE IF i < 0 /\ -Len(elems) <= i THEN elems[Len(elems) + i + 1]
    ELSE default

IndexClaim(form, i, chars, res) ==
    /\ rule = Op(SymVar, <<IndexKey(form, i)>>) =>
          res = Ok(Selected(AsArray(chars).a, i, Null))
    /\ rule = Op(SymVar, <<IndexKey(form, i), IndexDefault>>) =>
          res = Ok(Selected(AsArray(chars).a, i, IndexDefault))

C24_NegativeIndices ==
    Returned =>
      \A form \in IndexForms, i \in Indices, chars \in IndexSeqs :
        data \in {IndexIn(form, AsArray(chars)), IndexIn(form, String(chars))} =>
          IndexClaim(form, i, chars, result)

(* C25: apply never fails with UnexpectedError on well-formed input: it
   returns a JSON value or one of the rule and argument errors
   (InvalidOperation, WrongArgumentCount, InvalidArgument, InvalidVariable,
   InvalidVariableKey, InvalidData); so do the arithmetic operators on
   integer operands, / and % with a divisor that evaluates to 0 included. *)
RuleErrors ==
    {"InvalidOperation", "WrongArgumentCount", "InvalidArgument", "InvalidVariable",
     "InvalidVariableKey", "InvalidData"}

C25_NoUnexpectedError ==
    Returned /\ (\E sym \in Arithmetic : IsOpRule(rule, sym)) =>
      result.ok \/ (result.v.t = "err" /\ result.v.e \in RuleErrors)

(* C26: when the lookup of the key succeeds and the default evaluates
   without error, var returns the value found and the default has no part
   in the outcome: {"var": [key, X]} gives what {"var": [key]} gives,
   whatever JSON value X evaluates to.  (The null and the empty key are the
   subject of C7.) *)
SameOutcome(r1, r2) == r1.ok = r2.ok /\ r1.v = r2.v

C26_DefaultUnusedWhenFound ==
    Returned /\ IsOpRule(rule, SymVar) /\ Len(ArgsOf(rule, SymVar)) = 2
             /\ ArgsOf(rule, SymVar)[1] \notin {Null, String(<<>>)}
             /\ ValidKey(ArgsOf(rule, SymVar)[1]) /\ Found(ArgsOf(rule, SymVar)[1], data)
             /\ apply(ArgsOf(rule, SymVar)[2], data).ok
        => SameOutcome(result, apply(Op(SymVar, <<ArgsOf(rule, SymVar)[1]>>), data))

(* C27: a var lookup with a string key never fails because of the shape of
   the data.  The key is split on '.', the path is followed from left to
   right, an object being indexed by the segment as a key and an array or a
   string by the segment read as an integer; where a key is absent, an index
   out of range, a segment on an array or a string no integer, or the
   current value a number, a bool or null, the lookup finds nothing and var
   returns its default (null without one), not an error. *)
IsIndex(seg, n) ==
    parse_i64(seg).some /\ parse_i64(seg).v < n /\ -n <= parse_i64(seg).v
ElementAt(elems, seg) ==
    elems[IF parse_i64(seg).v < 0 THEN Len(elems) + parse_i64(seg).v + 1
          ELSE parse_i64(seg).v + 1]

RECURSIVE Follow(_, _, _)
Follow(current, segs, default) ==
    IF segs = <<>> THEN current
    ELSE CASE current.t = "obj" ->
                  IF Head(segs) \in DOMAIN current.m
                  THEN Follow(current.m[Head(segs)], Tail(segs), default) ELSE default
           [] current.t = "arr" ->
                  IF IsIndex(Head(segs), Len(current.a))
                  THEN Follow(ElementAt(current.a, Head(segs)), Tail(segs), default)
                  ELSE default
           [] current.t = "str" ->
                  IF IsIndex(Head(segs), Len(current.s))
                  THEN Follow(String(<<ElementAt(current.s, Head(segs))>>), Tail(segs), default)
                  ELSE default
           [] OTHER -> default

C27_StringKeyNeverFails ==
    Returned =>
      \A segs \in SeqsOf(Segments, 1, MaxPath) :
        /\ rule = Op(SymVar, <<String(JoinPath(segs))>>) =>
              result = Ok(Follow(data, segs, Null))
        /\ rule = Op(SymVar, <<String(JoinPath(segs)), IndexDefault>>) =>
              result = Ok(Follow(data, segs, IndexDefault))

(* C28: inside the expression of map and filter and the predicate of all,
   some and none the data is the current element alone, and inside the
   expression of reduce the object {current, accumulator} alone, so a var
   path of the outer data that the element lacks finds nothing; the source
   and the init of reduce are evaluated against the outer data; and when the
   iteration has returned, the sibling arguments of an enclosing operation
   are evaluated against the outer data again. *)
LookupIn(scope, k) ==
    IF k = <<>> THEN scope
    ELSE IF scope.t = "obj" /\ k \in DOMAIN scope.m THEN scope.m[k] ELSE Null

Holds(k, scope) == truthy(LookupIn(scope, k))

Iterated(sym, k, xs) ==
    CASE sym = SymMap -> Array([j \in 1..Len(xs) |-> LookupIn(xs[j], k)])
      [] sym = SymFilter -> Array(SelectSeq(xs, LAMBDA x : Holds(k, x)))
      [] sym = SymAll -> Bool(\A j \in 1..Len(xs) : Holds(k, xs[j]))
      [] sym = SymSome -> Bool(\E j \in 1..Len(xs) : Holds(k, xs[j]))
      [] sym = SymNone -> Bool(~\E j \in 1..Len(xs) : Holds(k, xs[j]))

RECURSIVE Reduced(_, _, _, _)
Reduced(k, xs, i, acc) ==
    IF i > Len(xs) THEN acc
    ELSE Reduced(k, xs, i + 1,
                 LookupIn(Object((KeyCurrent :> xs[i]) @@ (KeyAccumulator :> acc)), k))

Flat(val) == IF val.t = "arr" THEN val.a ELSE <<val>>

ScopeClaim(outer, xs, res) ==
    /\ \A sym \in Iterations, k \in ScopeKeys :
          /\ rule = Op(sym, <<Var(Str_x), Var(k)>>) => res = Ok(Iterated(sym, k, xs))
          /\ rule = Op(<<"m", "e", "r", "g", "e">>, <<Op(sym, <<Var(Str_x), Var(k)>>), Var(Str_o)>>)
                => res = Ok(Array(Flat(Iterated(sym, k, xs)) \o <<outer.m[Str_o]>>))
    /\ \A k \in ReduceKeys :
          /\ rule = Op(SymReduce, <<Var(Str_x), Var(k), Var(Str_o)>>)
                => res = Ok(Reduced(k, xs, 1, outer.m[Str_o]))
          /\ rule = Op(<<"m", "e", "r", "g", "e">>,
                       <<Op(SymReduce, <<Var(Str_x), Var(k), Var(Str_o)>>), Var(Str_o)>>)
                => res = Ok(Array(Flat(Reduced(k, xs, 1, outer.m[Str_o])) \o <<outer.m[Str_o]>>))

C28_IterationScope ==
    Returned /\ rule \in ScopeRules => ScopeClaim(data, data.m[Str_x].a, result)

(* C29: the part of the rule outside the arguments of lazy operators is
   parsed before any operator runs: when it holds an operation with a wrong
   argument count or a refused bare argument, apply returns that parse error
   for every data value, nothing has been logged and no evaluation error of
   an earlier argument comes instead; an operation inside the arguments of a
   lazy operator is parsed only when evaluation reaches that argument, so
   what the arguments before it logged is kept and a skipped one never
   fails. *)
ArityOf(key) ==
    IF key \in DOMAIN OPERATOR_MAP THEN OPERATOR_MAP[key]
    ELSE IF key \in DOMAIN DATA_OPERATOR_MAP THEN DATA_OPERATOR_MAP[key]
    ELSE LAZY_OPERATOR_MAP[key]

OwnParseErrors(key, val) ==
    IF val.t # "arr" /\ ~can_accept_unary(ArityOf(key)) THEN {"InvalidOperation"}
    ELSE IF ~is_valid_len(ArityOf(key), IF val.t = "arr" THEN Len(val.a) ELSE 1)
    THEN {"WrongArgumentCount"}
    ELSE {}

RECURSIVE EagerParseErrors(_)
EagerParseErrors(r) ==
    IF r.t # "obj" \/ Cardinality(DOMAIN r.m) # 1 THEN {}
    ELSE LET key == CHOOSE k \in DOMAIN r.m : TRUE
             val == r.m[key]
             args == IF val.t = "arr" THEN val.a ELSE <<val>>
         IN  IF key \notin Symbols THEN {}
             ELSE IF OwnParseErrors(key, val) # {} THEN OwnParseErrors(key, val)
             ELSE IF key \in DOMAIN LAZY_OPERATOR_MAP THEN {}
             ELSE UNION {EagerParseErrors(args[j]) : j \in 1..Len(args)}

FailsUnexecuted(res, errs) ==
    ~res.ok /\ res.v.t = "err" /\ res.v.e \in errs /\ res.out = <<>>

GuardClaim(sym, first, second, res) ==
    IF ~first.ok THEN res = first
    ELSE IF truthy(first.v) = (sym = SymOr) THEN res = first
    ELSE /\ ~res.ok
         /\ res.v.t = "err"
         /\ res.v.e \in EagerParseErrors(second)
         /\ res.out = first.out

C29_ParsedBeforeExecuted ==
    Returned /\ rule \in EagerRules \cup GuardRules =>
      /\ EagerParseErrors(rule) # {} => FailsUnexecuted(result, EagerParseErrors(rule))
      /\ \A sym \in {SymOr, SymAnd} :
            IsOpRule(rule, sym) /\ Len(ArgsOf(rule, sym)) = 2 =>
              GuardClaim(sym, apply(ArgsOf(rule, sym)[1], data), ArgsOf(rule, sym)[2], result)

(* an eager operation logs in its first argument and does not parse in its
   second: the error is the parse error and nothing was logged *)
C29_Witness ==
    /\ Returned
    /\ rule = Op(<<"c", "a", "t">>, <<Log(String(Str_b)), BadArity>>)
    /\ result = Err("WrongArgumentCount")

(* behind a lazy operator the same operation is parsed when it is reached *)
C29_WitnessReached ==
    /\ Returned
    /\ rule = Op(SymOr, <<Log(Number(0)), BadArity>>)
    /\ ~result.ok
    /\ result.out = <<Number(0)>>

(* C30: the abstract comparisons agree with one another on every pair of
   values a, b: at most one of a < b, a == b and a > b is true; a < b is
   true exactly when b > a is; a == b exactly when b == a is; a != b is the
   negation of a == b; and a == b makes both a <= b and a >= b true. *)
Related(sym, a, b) == apply(Op(sym, <<a, b>>), Null) = Ok(Bool(TRUE))

RelationClaim(sym, a, b, res) ==
    /\ res \in {Ok(Bool(TRUE)), Ok(Bool(FALSE))}
    /\ sym = <<"<">> =>
          /\ res.v.b <=> Related(<<">">>, b, a)
          /\ res.v.b => ~Related(<<"=", "=">>, a, b) /\ ~Related(<<">">>, a, b)
    /\ sym = <<">">> =>
          /\ res.v.b <=> Related(<<"<">>, b, a)
          /\ res.v.b => ~Related(<<"=", "=">>, a, b) /\ ~Related(<<"<">>, a, b)
    /\ sym = <<"=", "=">> =>
          /\ res.v.b <=> Related(<<"=", "=">>, b, a)
          /\ res.v.b => Related(<<"<", "=">>, a, b) /\ Related(<<">", "=">>, a, b)
          /\ res.v.b => ~Related(<<"<">>, a, b) /\ ~Related(<<">">>, a, b)
    /\ sym = <<"!", "=">> => (res.v.b <=> ~Related(<<"=", "=">>, a, b))
    /\ sym \in {<<"<", "=">>, <<">", "=">>} => (Related(<<"=", "=">>, a, b) => res.v.b)

C30_ComparisonsConsistent ==
    Returned /\ rule \in RelationRules =>
      \A sym \in Relations :
        IsOpRule(rule, sym) =>
          RelationClaim(sym, ArgsOf(rule, sym)[1], ArgsOf(rule, sym)[2], result)

(* two strings in order, the case where < and > must mirror each other *)
C30_Witness ==
    /\ Returned
    /\ rule = Op(<<"<">>, <<String(Str_a), String(<<"a", "b">>)>>)
    /\ result = Ok(Bool(TRUE))

(* values of different types that are equal after conversion *)
C30_WitnessEqual ==
    /\ Returned
    /\ rule = Op(<<"=", "=">>, <<Array(<<Number(1)>>), Bool(TRUE)>>)
    /\ result = Ok(Bool(TRUE))

====
